---- MODULE Spec2Model ----
(***************************************************************************)
(* Model of the rsntp SNTP client: the NTP timestamp type, the 48-byte     *)
(* packet codec, the validation and offset/delay computation of            *)
(* Reply::process, and the synchronize pipeline that drives them.          *)
(*                                                                         *)
(* Representation of machine integers.  TLC's integers are 32-bit signed,  *)
(* the program's are u64/u128, so a wide unsigned value is held as a       *)
(* big-endian sequence of 16-bit limbs (Base == 2^16): a u128 is 8 limbs,  *)
(* a u64 is 4 limbs, a u32 is 2 limbs.  A byte is an integer 0..255.       *)
(* An f64 is held as sign and magnitude, the magnitude a u128 counting     *)
(* units of 2^-33 s, rounded to 53 significant bits after every operation. *)
(***************************************************************************)
EXTENDS Integers, Sequences, FiniteSets, TLC

(***************************************************************************)
(* Wide unsigned arithmetic on limb sequences.                             *)
(***************************************************************************)
Base == 65536

U128Limbs == 8

U128Zero == <<0, 0, 0, 0, 0, 0, 0, 0>>

RECURSIVE AddLimbs(_, _, _, _)
AddLimbs(a, b, i, carry) ==
    IF i = 0 THEN <<>>
    ELSE LET s == a[i] + b[i] + carry
         IN  AddLimbs(a, b, i - 1, s \div Base) \o <<s % Base>>

\* a + b on u128 (no overflow is reachable: every operand is below 2^98)
U128Add(a, b) == AddLimbs(a, b, U128Limbs, 0)

RECURSIVE SubLimbs(_, _, _, _)
SubLimbs(a, b, i, borrow) ==
    IF i = 0 THEN <<>>
    ELSE LET d == a[i] - b[i] - borrow
         IN  SubLimbs(a, b, i - 1, IF d < 0 THEN 1 ELSE 0)
                \o <<IF d < 0 THEN d + Base ELSE d>>

\* a - b on u128, used only with a >= b
U128Sub(a, b) == SubLimbs(a, b, U128Limbs, 0)

\* a < b on u128
U128Less(a, b) ==
    \E i \in 1..U128Limbs :
        /\ a[i] < b[i]
        /\ \A k \in 1..(i - 1) : a[k] = b[k]

\* a << 32 on u128
U128Shl32(a) == [i \in 1..U128Limbs |-> IF i <= U128Limbs - 2 THEN a[i + 2] ELSE 0]

\* a >> 1 on u128
U128Shr1(a) ==
    [i \in 1..U128Limbs |->
        (IF i > 1 THEN (a[i - 1] % 2) * (Base \div 2) ELSE 0) + (a[i] \div 2)]

\* n as u128, for 0 <= n < 2^31
U128FromNat(n) == <<0, 0, 0, 0, 0, 0, n \div Base, n % Base>>

\* the four big-endian limbs of u64::from_be_bytes(bytes)
U64FromBeBytes(bytes) ==
    [i \in 1..4 |-> bytes[2 * i - 1] * 256 + bytes[2 * i]]

\* u64::to_be_bytes of a 4-limb value
U64ToBeBytes(limbs) ==
    [j \in 1..8 |-> IF j % 2 = 1 THEN limbs[(j + 1) \div 2] \div 256
                                 ELSE limbs[j \div 2] % 256]

\* timestamp as u128
U128FromU64(limbs) == <<0, 0, 0, 0>> \o limbs

(***************************************************************************)
(* f64: sign and magnitude; the magnitude counts units of 2^-33 second.    *)
(***************************************************************************)
Pow2(n) == IF n = 0 THEN 1 ELSE 2 ^ n

BitOf(x, j) == (x[((j - 1) \div 16) + 1] \div Pow2(15 - ((j - 1) % 16))) % 2

RECURSIVE LimbOfBits(_, _, _, _)
LimbOfBits(bits, i, k, acc) ==
    IF k > 16 THEN acc
    ELSE LimbOfBits(bits, i, k + 1, 2 * acc + bits[16 * (i - 1) + k])

U128FromBits(bits) == [i \in 1..U128Limbs |-> LimbOfBits(bits, i, 1, 0)]

\* Round a non-negative integer to 53 significant bits, ties to even:
\* the rounding of `as f64` and of every f64 addition.
Round53(x) ==
    IF x[1] = 0 /\ x[2] = 0 /\ x[3] = 0 /\ x[4] = 0 /\ x[5] < 32
    THEN x
    ELSE LET msb  == CHOOSE j \in 1..128 :
                        /\ BitOf(x, j) = 1
                        /\ \A k \in 1..(j - 1) : BitOf(x, k) = 0
             last == msb + 52
             kept == [j \in 1..128 |-> IF j <= last THEN BitOf(x, j) ELSE 0]
             ulp  == [j \in 1..128 |-> IF j = last THEN 1 ELSE 0]
             up   == /\ BitOf(x, last + 1) = 1
                     /\ \/ BitOf(x, last) = 1
                        \/ \E k \in (last + 2)..128 : BitOf(x, k) = 1
         IN  IF up THEN U128Add(U128FromBits(kept), U128FromBits(ulp))
                   ELSE U128FromBits(kept)

F64(neg, mag) == [neg |-> neg /\ mag # U128Zero, mag |-> mag]

F64Zero == F64(FALSE, U128Zero)

F64Neg(x) == F64(~x.neg, x.mag)

\* the exact sum of two signed magnitudes
SignedAdd(x, y) ==
    IF x.neg = y.neg THEN F64(x.neg, U128Add(x.mag, y.mag))
    ELSE IF U128Less(x.mag, y.mag) THEN F64(y.neg, U128Sub(y.mag, x.mag))
    ELSE F64(x.neg, U128Sub(x.mag, y.mag))

\* x + y in f64: the exact sum, rounded
F64Add(x, y) == LET e == SignedAdd(x, y) IN F64(e.neg, Round53(e.mag))

\* x - y in f64
F64Sub(x, y) == F64Add(x, F64Neg(y))

\* x / 2.0 in f64 (exact: every magnitude halved here is even)
F64Half(x) == F64(x.neg, U128Shr1(x.mag))

(***************************************************************************)
(* Result values: Ok(v) for a returned value, Err(e) for a returned error  *)
(* or, for an operation that cannot return an error, an abort (panic).     *)
(***************************************************************************)
Ok(v) == [ok |-> TRUE, val |-> v]

Err(e) == [ok |-> FALSE, err |-> e]

(***************************************************************************)
(* SntpTimestamp (packet.rs).  The value is the u128 field.  A SystemTime  *)
(* at or after the Unix epoch is [secs, nanos].                            *)
(***************************************************************************)
\* 2_208_988_800 = 0x83AA_7E80
UNIX_EPOCH == <<0, 0, 0, 0, 0, 0, 33706, 32384>>

\* 0x0001_0000_0000_0000_0000
TwoPow64 == <<0, 0, 0, 1, 0, 0, 0, 0>>

\* 0x0002_0000_0000_0000_0000
TwoPow65 == <<0, 0, 0, 2, 0, 0, 0, 0>>

NANOS_PER_SEC == 1000000000

zero == U128Zero

\* 16 steps of the long division of r * 2^16 by 1_000_000_000, for
\* r < 1_000_000_000: <<quotient, remainder>>.
RECURSIVE DivSteps(_, _, _)
DivSteps(r, k, acc) ==
    IF k = 0 THEN <<acc, r>>
    ELSE IF 2 * r >= NANOS_PER_SEC
         THEN DivSteps(2 * r - NANOS_PER_SEC, k - 1, 2 * acc + 1)
         ELSE DivSteps(2 * r, k - 1, 2 * acc)

\* the fraction taken as four units per nanosecond
subsec_nanos_four_per_nano(nanos) ==
    <<0, 0, 0, 0, 0, 0, (4 * (nanos \div Base)) + ((4 * (nanos % Base)) \div Base),
      (4 * (nanos % Base)) % Base>>

\* ((nanos as u128) << 32) / 1_000_000_000, truncated
subsec_nanos(nanos) ==
    LET hi == DivSteps(nanos, 16, 0)
        lo == DivSteps(hi[2], 16, 0)
    IN  <<0, 0, 0, 0, 0, 0, hi[1], lo[1]>>

\* duration_since(UNIX_EPOCH).as_secs() as u128: the seconds of an instant
\* are a number below 2^31, or the four limbs of a u64 for a later one
as_secs(system_time) ==
    IF "secs" \in DOMAIN system_time
    THEN U128FromNat(system_time.secs)
    ELSE U128FromU64(system_time.secs_u64)

from_systemtime(system_time) ==
    LET seconds == U128Add(as_secs(system_time), UNIX_EPOCH)
    IN  U128Add(U128Shl32(seconds), subsec_nanos(system_time.nanos))

is_zero(self) == self = U128Zero

\* from_bytes keeping every field in the era of 1900
SntpTimestamp_from_bytes_single_era(bytes) ==
    LET timestamp == U64FromBeBytes(bytes)
    IN  U128FromU64(timestamp)

SntpTimestamp_from_bytes(bytes) ==
    LET timestamp == U64FromBeBytes(bytes)
    IN  IF timestamp[1] < 32768
        THEN U128Add(U128FromU64(timestamp), TwoPow64)
        ELSE U128FromU64(timestamp)

\* to_bytes masking bit 63 in both branches
SntpTimestamp_to_bytes_masking_always(self) ==
    IF ~U128Less(self, TwoPow65) THEN Err("assertion failed")
    ELSE Ok(U64ToBeBytes(<<self[5] % 32768, self[6], self[7], self[8]>>))

SntpTimestamp_to_bytes(self) ==
    IF ~U128Less(self, TwoPow65) THEN Err("assertion failed")
    ELSE IF U128Less(self, TwoPow64)
         THEN Ok(U64ToBeBytes(SubSeq(self, 5, 8)))
         ELSE Ok(U64ToBeBytes(<<self[5] % 32768, self[6], self[7], self[8]>>))

\* self - rhs: the difference as f64, divided by 4294967296.0
SntpTimestamp_sub(self, rhs) ==
    IF ~U128Less(self, rhs)
    THEN LET m == Round53(U128Sub(self, rhs)) IN F64(FALSE, U128Add(m, m))
    ELSE LET m == Round53(U128Sub(rhs, self)) IN F64(TRUE, U128Add(m, m))

\* Sub::sub computing self.0 - rhs.0 whatever the order
SntpTimestamp_sub_overflows_unordered(self, rhs) == U128Less(self, rhs)

\* whether the u128 subtraction in the branch Sub::sub takes underflows
SntpTimestamp_sub_overflows(self, rhs) ==
    IF ~U128Less(self, rhs) THEN U128Less(self, rhs) ELSE U128Less(rhs, self)

(***************************************************************************)
(* LeapIndicator, Mode, ReferenceIdentifier (packet.rs), errors (error.rs) *)
(***************************************************************************)
ProtocolError(kind) == [kind |-> kind]

KissODeath(code) == [kind |-> "KissODeath", code |-> code]

\* LeapIndicator::from_u8 without the arm for 3
LeapIndicator_from_u8_without_alarm(raw) ==
    CASE raw = 0 -> Ok("NoWarning")
      [] raw = 1 -> Ok("LastMinuteHas59Seconds")
      [] raw = 2 -> Ok("LastMinuteHas61Seconds")
      [] OTHER   -> Err(ProtocolError("InvalidLeapIndicator"))

LeapIndicator_from_u8(raw) ==
    CASE raw = 0 -> Ok("NoWarning")
      [] raw = 1 -> Ok("LastMinuteHas59Seconds")
      [] raw = 2 -> Ok("LastMinuteHas61Seconds")
      [] raw = 3 -> Ok("AlarmCondition")
      [] OTHER   -> Err(ProtocolError("InvalidLeapIndicator"))

LeapIndicator_to_u8(self) ==
    CASE self = "NoWarning"              -> 0
      [] self = "LastMinuteHas59Seconds" -> 1
      [] self = "LastMinuteHas61Seconds" -> 2
      [] self = "AlarmCondition"         -> 3

\* Mode::from_u8 with the last arm written as a range
Mode_from_u8_range(raw) ==
    CASE raw = 3  -> Ok("Client")
      [] raw = 4  -> Ok("Server")
      [] raw >= 5 -> Ok("Broadcast")
      [] OTHER    -> Err(ProtocolError("InvalidMode"))

Mode_from_u8(raw) ==
    CASE raw = 3 -> Ok("Client")
      [] raw = 4 -> Ok("Server")
      [] raw = 5 -> Ok("Broadcast")
      [] OTHER   -> Err(ProtocolError("InvalidMode"))

Mode_to_u8(self) ==
    CASE self = "Client"    -> 3
      [] self = "Server"    -> 4
      [] self = "Broadcast" -> 5

Empty == [tag |-> "Empty"]

ASCII(s) == [tag |-> "ASCII", s |-> s]

IpAddress(addr) == [tag |-> "IpAddress", addr |-> addr]

MD5Hash(hash) == [tag |-> "MD5Hash", hash |-> hash]

\* str::trim_end_matches('\u{0}') on a string held as its byte sequence
RECURSIVE trim_end_matches_nul(_)
trim_end_matches_nul(s) ==
    IF s = <<>> \/ s[Len(s)] # 0 THEN s
    ELSE trim_end_matches_nul(SubSeq(s, 1, Len(s) - 1))

is_ascii(raw) == \A i \in 1..Len(raw) : raw[i] < 128

\* new_ascii giving Empty for an identifier of four NULs
new_ascii_empty_when_blank(raw) ==
    IF ~is_ascii(raw) THEN Err(ProtocolError("InvalidReferenceIdentifier"))
    ELSE IF trim_end_matches_nul(raw) = <<>> THEN Ok(Empty)
    ELSE Ok(ASCII(trim_end_matches_nul(raw)))

new_ascii(raw) ==
    IF ~is_ascii(raw) THEN Err(ProtocolError("InvalidReferenceIdentifier"))
    ELSE Ok(ASCII(trim_end_matches_nul(raw)))

\* IpAddr::from([u8; 4]): the V4 address with these octets
new_ipv4_address(raw) == Ok(IpAddress([family |-> "V4", octets |-> raw]))

\* u32::from_be_bytes(raw), as two 16-bit limbs
new_ipv6_hash(raw) == Ok(MD5Hash(<<raw[1] * 256 + raw[2], raw[3] * 256 + raw[4]>>))

is_empty(self) == self.tag = "Empty"

(***************************************************************************)
(* Packet (packet.rs).  data is a byte sequence; the code's data[i] is     *)
(* data[i + 1] here, and data[a..b] is SubSeq(data, a + 1, b).             *)
(***************************************************************************)
ENCODED_LEN == 48

SNTP_VERSION_CONSTANT == 32

\* Packet::from_bytes taking the identifier from the root dispersion field,
\* data[8..12]
Packet_from_bytes_identifier_at_8(data, server_address) ==
    IF Len(data) < ENCODED_LEN THEN Err(ProtocolError("PacketIsTooShort"))
    ELSE LET version == (data[1] \div 8) % 8
             li      == LeapIndicator_from_u8(data[1] \div 64)
             mode    == Mode_from_u8(data[1] % 8)
             stratum == data[2]
             raw_reference_identifier == SubSeq(data, 9, 12)
             reference_identifier ==
                 IF stratum = 0 \/ stratum = 1
                 THEN new_ascii(raw_reference_identifier)
                 ELSE IF server_address.family = "V4"
                      THEN new_ipv4_address(raw_reference_identifier)
                      ELSE new_ipv6_hash(raw_reference_identifier)
         IN  IF version # 4 THEN Err(ProtocolError("InvalidPacketVersion"))
             ELSE IF ~li.ok THEN li
             ELSE IF ~mode.ok THEN mode
             ELSE IF ~reference_identifier.ok THEN reference_identifier
             ELSE Ok([li                   |-> li.val,
                      mode                 |-> mode.val,
                      stratum              |-> stratum,
                      reference_identifier |-> reference_identifier.val,
                      reference_timestamp  |-> SntpTimestamp_from_bytes(SubSeq(data, 17, 24)),
                      originate_timestamp  |-> SntpTimestamp_from_bytes(SubSeq(data, 25, 32)),
                      receive_timestamp    |-> SntpTimestamp_from_bytes(SubSeq(data, 33, 40)),
                      transmit_timestamp   |-> SntpTimestamp_from_bytes(SubSeq(data, 41, 48))])

\* Packet::from_bytes with the mode decoded before the version is checked
Packet_from_bytes_mode_first(data, server_address) ==
    IF Len(data) < ENCODED_LEN THEN Err(ProtocolError("PacketIsTooShort"))
    ELSE LET version == (data[1] \div 8) % 8
             li      == LeapIndicator_from_u8(data[1] \div 64)
             mode    == Mode_from_u8(data[1] % 8)
             stratum == data[2]
             raw_reference_identifier == SubSeq(data, 13, 16)
             reference_identifier ==
                 IF stratum = 0 \/ stratum = 1
                 THEN new_ascii(raw_reference_identifier)
                 ELSE IF server_address.family = "V4"
                      THEN new_ipv4_address(raw_reference_identifier)
                      ELSE new_ipv6_hash(raw_reference_identifier)
         IN  IF ~mode.ok THEN mode
             ELSE IF version # 4 THEN Err(ProtocolError("InvalidPacketVersion"))
             ELSE IF ~li.ok THEN li
             ELSE IF ~reference_identifier.ok THEN reference_identifier
             ELSE Ok([li                   |-> li.val,
                      mode                 |-> mode.val,
                      stratum              |-> stratum,
                      reference_identifier |-> reference_identifier.val,
                      reference_timestamp  |-> SntpTimestamp_from_bytes(SubSeq(data, 17, 24)),
                      originate_timestamp  |-> SntpTimestamp_from_bytes(SubSeq(data, 25, 32)),
                      receive_timestamp    |-> SntpTimestamp_from_bytes(SubSeq(data, 33, 40)),
                      transmit_timestamp   |-> SntpTimestamp_from_bytes(SubSeq(data, 41, 48))])

\* Packet::from_bytes reading the identifier as ASCII for stratum 1 only
Packet_from_bytes_ascii_stratum_1(data, server_address) ==
    IF Len(data) < ENCODED_LEN THEN Err(ProtocolError("PacketIsTooShort"))
    ELSE LET version == (data[1] \div 8) % 8
             li      == LeapIndicator_from_u8(data[1] \div 64)
             mode    == Mode_from_u8(data[1] % 8)
             stratum == data[2]
             raw_reference_identifier == SubSeq(data, 13, 16)
             reference_identifier ==
                 IF stratum = 1
                 THEN new_ascii(raw_reference_identifier)
                 ELSE IF server_address.family = "V4"
                      THEN new_ipv4_address(raw_reference_identifier)
                      ELSE new_ipv6_hash(raw_reference_identifier)
         IN  IF version # 4 THEN Err(ProtocolError("InvalidPacketVersion"))
             ELSE IF ~li.ok THEN li
             ELSE IF ~mode.ok THEN mode
             ELSE IF ~reference_identifier.ok THEN reference_identifier
             ELSE Ok([li                   |-> li.val,
                      mode                 |-> mode.val,
                      stratum              |-> stratum,
                      reference_identifier |-> reference_identifier.val,
                      reference_timestamp  |-> SntpTimestamp_from_bytes(SubSeq(data, 17, 24)),
                      originate_timestamp  |-> SntpTimestamp_from_bytes(SubSeq(data, 25, 32)),
                      receive_timestamp    |-> SntpTimestamp_from_bytes(SubSeq(data, 33, 40)),
                      transmit_timestamp   |-> SntpTimestamp_from_bytes(SubSeq(data, 41, 48))])

Packet_from_bytes(data, server_address) ==
    IF Len(data) < ENCODED_LEN THEN Err(ProtocolError("PacketIsTooShort"))
    ELSE LET version == (data[1] \div 8) % 8
             li      == LeapIndicator_from_u8(data[1] \div 64)
             mode    == Mode_from_u8(data[1] % 8)
             stratum == data[2]
             raw_reference_identifier == SubSeq(data, 13, 16)
             reference_identifier ==
                 IF stratum = 0 \/ stratum = 1
                 THEN new_ascii(raw_reference_identifier)
                 ELSE IF server_address.family = "V4"
                      THEN new_ipv4_address(raw_reference_identifier)
                      ELSE new_ipv6_hash(raw_reference_identifier)
         IN  IF version # 4 THEN Err(ProtocolError("InvalidPacketVersion"))
             ELSE IF ~li.ok THEN li
             ELSE IF ~mode.ok THEN mode
             ELSE IF ~reference_identifier.ok THEN reference_identifier
             ELSE Ok([li                   |-> li.val,
                      mode                 |-> mode.val,
                      stratum              |-> stratum,
                      reference_identifier |-> reference_identifier.val,
                      reference_timestamp  |-> SntpTimestamp_from_bytes(SubSeq(data, 17, 24)),
                      originate_timestamp  |-> SntpTimestamp_from_bytes(SubSeq(data, 25, 32)),
                      receive_timestamp    |-> SntpTimestamp_from_bytes(SubSeq(data, 33, 40)),
                      transmit_timestamp   |-> SntpTimestamp_from_bytes(SubSeq(data, 41, 48))])

\* Packet::from_bytes with a length check written for a 40-byte packet
Packet_from_bytes_out_of_range_short_check(data, server_address) ==
    IF Len(data) < ENCODED_LEN - 8 THEN FALSE
    ELSE IF Len(data) < 1 THEN TRUE
    ELSE IF \/ (data[1] \div 8) % 8 # 4
            \/ ~LeapIndicator_from_u8(data[1] \div 64).ok
            \/ ~Mode_from_u8(data[1] % 8).ok
    THEN FALSE
    ELSE IF Len(data) < 16 THEN TRUE
    ELSE IF (data[2] = 0 \/ data[2] = 1) /\ ~new_ascii(SubSeq(data, 13, 16)).ok
    THEN FALSE
    ELSE Len(data) < 48

\* whether Packet::from_bytes indexes past the end of data: it reads data[0],
\* then, the version, leap indicator and mode accepted, data[1] and
\* data[12..16], then, the identifier accepted, data[16..24] to data[40..48]
Packet_from_bytes_out_of_range(data, server_address) ==
    IF Len(data) < ENCODED_LEN THEN FALSE
    ELSE IF Len(data) < 1 THEN TRUE
    ELSE IF \/ (data[1] \div 8) % 8 # 4
            \/ ~LeapIndicator_from_u8(data[1] \div 64).ok
            \/ ~Mode_from_u8(data[1] % 8).ok
    THEN FALSE
    ELSE IF Len(data) < 16 THEN TRUE
    ELSE IF (data[2] = 0 \/ data[2] = 1) /\ ~new_ascii(SubSeq(data, 13, 16)).ok
    THEN FALSE
    ELSE Len(data) < 48

\* Packet::to_bytes without the assertion on the reference identifier
Packet_to_bytes_without_assertion(self) ==
    LET byte0 == LeapIndicator_to_u8(self.li) * 64 + SNTP_VERSION_CONSTANT
                    + Mode_to_u8(self.mode)
        ref   == SntpTimestamp_to_bytes(self.reference_timestamp)
        org   == SntpTimestamp_to_bytes(self.originate_timestamp)
        rec   == SntpTimestamp_to_bytes(self.receive_timestamp)
        xmt   == SntpTimestamp_to_bytes(self.transmit_timestamp)
    IN  IF ~ref.ok THEN ref
        ELSE IF ~org.ok THEN org
        ELSE IF ~rec.ok THEN rec
        ELSE IF ~xmt.ok THEN xmt
        ELSE Ok(<<byte0, self.stratum>> \o [i \in 1..14 |-> 0]
                    \o ref.val \o org.val \o rec.val \o xmt.val)

\* Packet::to_bytes leaving the stratum byte zero
Packet_to_bytes_without_stratum(self) ==
    LET byte0 == LeapIndicator_to_u8(self.li) * 64 + SNTP_VERSION_CONSTANT
                    + Mode_to_u8(self.mode)
        ref   == SntpTimestamp_to_bytes(self.reference_timestamp)
        org   == SntpTimestamp_to_bytes(self.originate_timestamp)
        rec   == SntpTimestamp_to_bytes(self.receive_timestamp)
        xmt   == SntpTimestamp_to_bytes(self.transmit_timestamp)
    IN  IF ~is_empty(self.reference_identifier)
        THEN Err("Reference identifier should be empty for client packets")
        ELSE IF ~ref.ok THEN ref
        ELSE IF ~org.ok THEN org
        ELSE IF ~rec.ok THEN rec
        ELSE IF ~xmt.ok THEN xmt
        ELSE Ok(<<byte0, 0>> \o [i \in 1..14 |-> 0]
                    \o ref.val \o org.val \o rec.val \o xmt.val)

\* Packet::to_bytes without the version bits in the first byte
Packet_to_bytes_without_version(self) ==
    LET byte0 == LeapIndicator_to_u8(self.li) * 64 + Mode_to_u8(self.mode)
        ref   == SntpTimestamp_to_bytes(self.reference_timestamp)
        org   == SntpTimestamp_to_bytes(self.originate_timestamp)
        rec   == SntpTimestamp_to_bytes(self.receive_timestamp)
        xmt   == SntpTimestamp_to_bytes(self.transmit_timestamp)
    IN  IF ~is_empty(self.reference_identifier)
        THEN Err("Reference identifier should be empty for client packets")
        ELSE IF ~ref.ok THEN ref
        ELSE IF ~org.ok THEN org
        ELSE IF ~rec.ok THEN rec
        ELSE IF ~xmt.ok THEN xmt
        ELSE Ok(<<byte0, self.stratum>> \o [i \in 1..14 |-> 0]
                    \o ref.val \o org.val \o rec.val \o xmt.val)

Packet_to_bytes(self) ==
    LET byte0 == LeapIndicator_to_u8(self.li) * 64 + SNTP_VERSION_CONSTANT
                    + Mode_to_u8(self.mode)
        ref   == SntpTimestamp_to_bytes(self.reference_timestamp)
        org   == SntpTimestamp_to_bytes(self.originate_timestamp)
        rec   == SntpTimestamp_to_bytes(self.receive_timestamp)
        xmt   == SntpTimestamp_to_bytes(self.transmit_timestamp)
    IN  IF ~is_empty(self.reference_identifier)
        THEN Err("Reference identifier should be empty for client packets")
        ELSE IF ~ref.ok THEN ref
        ELSE IF ~org.ok THEN org
        ELSE IF ~rec.ok THEN rec
        ELSE IF ~xmt.ok THEN xmt
        ELSE Ok(<<byte0, self.stratum>> \o [i \in 1..14 |-> 0]
                    \o ref.val \o org.val \o rec.val \o xmt.val)

(***************************************************************************)
(* KissCode (error.rs).  Strings are byte sequences.                       *)
(***************************************************************************)
Str_ACST == <<65, 67, 83, 84>>
Str_AUTH == <<65, 85, 84, 72>>
Str_AUTO == <<65, 85, 84, 79>>
Str_BCST == <<66, 67, 83, 84>>
Str_CRYP == <<67, 82, 89, 80>>
Str_DENY == <<68, 69, 78, 89>>
Str_DROP == <<68, 82, 79, 80>>
Str_RSTR == <<82, 83, 84, 82>>
Str_INIT == <<73, 78, 73, 84>>
Str_MCST == <<77, 67, 83, 84>>
Str_NKEY == <<78, 75, 69, 89>>
Str_RATE == <<82, 65, 84, 69>>
Str_RMOT == <<82, 77, 79, 84>>
Str_STEP == <<83, 84, 69, 80>>

\* KissCode::new with the RSTR arm missing
KissCode_new_without_RSTR(reference_identifier) ==
    IF reference_identifier.tag = "ASCII"
    THEN LET s == reference_identifier.s
         IN  CASE s = Str_ACST -> "AssociationBelongsToAnycastServer"
               [] s = Str_AUTH -> "ServerAuthenticationFailed"
               [] s = Str_AUTO -> "AutokeySequenceFailed"
               [] s = Str_BCST -> "AssociationBelongsToBroadcastServer"
               [] s = Str_CRYP -> "CryptographicAuthenticationFailed"
               [] s = Str_DENY -> "AccessDenied"
               [] s = Str_DROP -> "LostPeer"
               [] s = Str_INIT -> "AssociationNotYetSynchronized"
               [] s = Str_MCST -> "AssociationBelongsToManycastServer"
               [] s = Str_NKEY -> "NoKeyFound"
               [] s = Str_RATE -> "RateExceeded"
               [] s = Str_RMOT -> "TinkeringWithAssociation"
               [] s = Str_STEP -> "StepChange"
               [] OTHER        -> "Unknown"
    ELSE "Unknown"

KissCode_new(reference_identifier) ==
    IF reference_identifier.tag = "ASCII"
    THEN LET s == reference_identifier.s
         IN  CASE s = Str_ACST -> "AssociationBelongsToAnycastServer"
               [] s = Str_AUTH -> "ServerAuthenticationFailed"
               [] s = Str_AUTO -> "AutokeySequenceFailed"
               [] s = Str_BCST -> "AssociationBelongsToBroadcastServer"
               [] s = Str_CRYP -> "CryptographicAuthenticationFailed"
               [] s = Str_DENY -> "AccessDenied"
               [] s = Str_DROP -> "LostPeer"
               [] s = Str_RSTR -> "AccessDenied"
               [] s = Str_INIT -> "AssociationNotYetSynchronized"
               [] s = Str_MCST -> "AssociationBelongsToManycastServer"
               [] s = Str_NKEY -> "NoKeyFound"
               [] s = Str_RATE -> "RateExceeded"
               [] s = Str_RMOT -> "TinkeringWithAssociation"
               [] s = Str_STEP -> "StepChange"
               [] OTHER        -> "Unknown"
    ELSE "Unknown"

(***************************************************************************)
(* Request and Reply (core_logic.rs)                                       *)
(***************************************************************************)
SyncProtocolError(protocol_error) ==
    [variant |-> "ProtocolError", protocol_error |-> protocol_error]

SyncIOError(io_error) == [variant |-> "IOError", io_error |-> io_error]

\* is_kiss_of_death matching the known kiss codes only
is_kiss_of_death_known_codes(self) ==
    /\ self.variant = "ProtocolError"
    /\ self.protocol_error.kind = "KissODeath"
    /\ self.protocol_error.code # "Unknown"

\* matches!(self, SynchronizationError::ProtocolError(ProtocolError::KissODeath(_)))
is_kiss_of_death(self) ==
    /\ self.variant = "ProtocolError"
    /\ self.protocol_error.kind = "KissODeath"

new_with_transmit_time(transmit_time) ==
    [packet |-> [li                   |-> "NoWarning",
                 mode                 |-> "Client",
                 stratum              |-> 0,
                 reference_identifier |-> Empty,
                 reference_timestamp  |-> zero,
                 originate_timestamp  |-> zero,
                 receive_timestamp    |-> zero,
                 transmit_timestamp   |-> from_systemtime(transmit_time)]]

as_bytes(self) == Packet_to_bytes(self.packet)

new_with_reply_time(request, reply, reply_time) ==
    [request         |-> request.packet,
     reply           |-> reply,
     reply_timestamp |-> from_systemtime(reply_time)]

\* Reply::check also discarding replies of an unsynchronized server
check_rejecting_alarm(self) ==
    IF self.reply.stratum = 0
    THEN Err(KissODeath(KissCode_new(self.reply.reference_identifier)))
    ELSE IF self.reply.originate_timestamp # self.request.transmit_timestamp
    THEN Err(ProtocolError("InvalidOriginateTimestamp"))
    ELSE IF is_zero(self.reply.transmit_timestamp)
    THEN Err(ProtocolError("InvalidTransmitTimestamp"))
    ELSE IF self.reply.mode # "Server" /\ self.reply.mode # "Broadcast"
    THEN Err(ProtocolError("InvalidMode"))
    ELSE IF self.reply.li = "AlarmCondition"
    THEN Err(ProtocolError("InvalidLeapIndicator"))
    ELSE Ok("unit")

\* Reply::check with the stratum test after the originate test
check_originate_first(self) ==
    IF self.reply.originate_timestamp # self.request.transmit_timestamp
    THEN Err(ProtocolError("InvalidOriginateTimestamp"))
    ELSE IF self.reply.stratum = 0
    THEN Err(KissODeath(KissCode_new(self.reply.reference_identifier)))
    ELSE IF is_zero(self.reply.transmit_timestamp)
    THEN Err(ProtocolError("InvalidTransmitTimestamp"))
    ELSE IF self.reply.mode # "Server" /\ self.reply.mode # "Broadcast"
    THEN Err(ProtocolError("InvalidMode"))
    ELSE Ok("unit")

\* Reply::check with the mode test before the transmit test
check_mode_before_transmit(self) ==
    IF self.reply.stratum = 0
    THEN Err(KissODeath(KissCode_new(self.reply.reference_identifier)))
    ELSE IF self.reply.originate_timestamp # self.request.transmit_timestamp
    THEN Err(ProtocolError("InvalidOriginateTimestamp"))
    ELSE IF self.reply.mode # "Server" /\ self.reply.mode # "Broadcast"
    THEN Err(ProtocolError("InvalidMode"))
    ELSE IF is_zero(self.reply.transmit_timestamp)
    THEN Err(ProtocolError("InvalidTransmitTimestamp"))
    ELSE Ok("unit")

check(self) ==
    IF self.reply.stratum = 0
    THEN Err(KissODeath(KissCode_new(self.reply.reference_identifier)))
    ELSE IF self.reply.originate_timestamp # self.request.transmit_timestamp
    THEN Err(ProtocolError("InvalidOriginateTimestamp"))
    ELSE IF is_zero(self.reply.transmit_timestamp)
    THEN Err(ProtocolError("InvalidTransmitTimestamp"))
    ELSE IF self.reply.mode # "Server" /\ self.reply.mode # "Broadcast"
    THEN Err(ProtocolError("InvalidMode"))
    ELSE Ok("unit")

\* ((receive_ts - originate_ts) + (transmit_ts - self.reply_timestamp)), not halved
clock_offset_s_not_halved(self) ==
    LET originate_ts == self.reply.originate_timestamp
        transmit_ts  == self.reply.transmit_timestamp
        receive_ts   == self.reply.receive_timestamp
    IN  F64Add(SntpTimestamp_sub(receive_ts, originate_ts),
               SntpTimestamp_sub(transmit_ts, self.reply_timestamp))

\* let clock_offset_s = ((receive_ts - originate_ts) + (transmit_ts - self.reply_timestamp)) / 2.0;
clock_offset_s(self) ==
    LET originate_ts == self.reply.originate_timestamp
        transmit_ts  == self.reply.transmit_timestamp
        receive_ts   == self.reply.receive_timestamp
    IN  F64Half(F64Add(SntpTimestamp_sub(receive_ts, originate_ts),
                       SntpTimestamp_sub(transmit_ts, self.reply_timestamp)))

\* let round_trip_delay_s = (self.reply_timestamp - originate_ts) - (transmit_ts - receive_ts);
round_trip_delay_s(self) ==
    LET originate_ts == self.reply.originate_timestamp
        transmit_ts  == self.reply.transmit_timestamp
        receive_ts   == self.reply.receive_timestamp
    IN  F64Sub(SntpTimestamp_sub(self.reply_timestamp, originate_ts),
               SntpTimestamp_sub(transmit_ts, receive_ts))

\* Reply::process filling the result from the wrong packet of the pair
process_result_from_request(self) ==
    LET checked == check(self)
    IN  IF ~checked.ok THEN Err(SyncProtocolError(checked.err))
        ELSE Ok([round_trip_delay_s   |-> round_trip_delay_s(self),
                 clock_offset_s       |-> clock_offset_s(self),
                 reference_identifier |-> self.request.reference_identifier,
                 leap_indicator       |-> self.request.li,
                 stratum              |-> self.request.stratum])

process(self) ==
    LET checked == check(self)
    IN  IF ~checked.ok THEN Err(SyncProtocolError(checked.err))
        ELSE Ok([round_trip_delay_s   |-> round_trip_delay_s(self),
                 clock_offset_s       |-> clock_offset_s(self),
                 reference_identifier |-> self.reply.reference_identifier,
                 leap_indicator       |-> self.reply.li,
                 stratum              |-> self.reply.stratum])

\* whether one of the four timestamp subtractions of Reply::process underflows
process_overflows(self) ==
    /\ check(self).ok
    /\ \/ SntpTimestamp_sub_overflows(self.reply_timestamp, self.reply.originate_timestamp)
       \/ SntpTimestamp_sub_overflows(self.reply.transmit_timestamp, self.reply.receive_timestamp)
       \/ SntpTimestamp_sub_overflows(self.reply.receive_timestamp, self.reply.originate_timestamp)
       \/ SntpTimestamp_sub_overflows(self.reply.transmit_timestamp, self.reply_timestamp)

(***************************************************************************)
(* The environment: clock readings, and what the network can deliver.      *)
(***************************************************************************)
\* Longest datagram the peer puts on the wire; recv_from keeps at most
\* ENCODED_LEN bytes of it.
MaxWireLen == 49

\* Readings of SystemTime::now(): 2026-11-01 09:00:00 UTC, 200 ms later, and
\* an instant after the 2036 rollover of the 32-bit seconds field.
ClockInstants ==
    { [secs |-> 1793523600, nanos |-> 0],
      [secs |-> 1793523600, nanos |-> 200000000],
      [secs |-> 2085978500, nanos |-> 250000000] }

\* Instants of the server's clock: 400 ms before and 100 ms after the first
\* reading above.
ServerInstants ==
    { [secs |-> 1793523599, nanos |-> 600000000],
      [secs |-> 1793523600, nanos |-> 100000000] }

Addresses == { [family |-> "V4"], [family |-> "V6"] }

NoValue == [tag |-> "None"]

ZeroBytes(n) == [i \in 1..n |-> 0]

Str_LOCL == <<76, 79, 67, 76>>

\* the 8 wire bytes of an instant
WireTime(t) == SntpTimestamp_to_bytes(from_systemtime(t)).val

ServerTimes == { WireTime(t) : t \in ServerInstants }

\* the server's clock 400 ms before the first clock reading
ServerTimeA == WireTime([secs |-> 1793523599, nanos |-> 600000000])

\* the transmit timestamp field of the request that was sent
Echo(wire) == SubSeq(wire, 41, 48)

MkDatagram(byte0, stratum, filler, refid, ref, org, rec, xmt) ==
    <<byte0, stratum>> \o filler \o refid \o ref \o org \o rec \o xmt

\* every first byte, on otherwise well-formed replies
HeaderSweep(wire) ==
    { MkDatagram(b0, st, ZeroBytes(10), id, ZeroBytes(8), Echo(wire),
                 ServerTimeA, ServerTimeA) :
        b0 \in 0..255, st \in {1, 2}, id \in {Str_LOCL, <<128, 0, 0, 1>>} }

\* replies of a serving peer: modes, strata, identifiers and timestamps
Bodies(wire) ==
    { MkDatagram(b0, st, ZeroBytes(10), id, ZeroBytes(8), org, rec, xmt) :
        b0 \in {35, 36, 37, 228}, st \in {1, 2, 255},
        id \in {Str_LOCL, <<192, 168, 0, 1>>},
        org \in {Echo(wire), ZeroBytes(8)} \cup ServerTimes,
        rec \in ServerTimes \cup {<<255, 255, 255, 255, 255, 255, 255, 255>>},
        xmt \in ServerTimes \cup {ZeroBytes(8)} }

KissStrings ==
    { Str_ACST, Str_AUTH, Str_AUTO, Str_BCST, Str_CRYP, Str_DENY, Str_DROP,
      Str_RSTR, Str_INIT, Str_MCST, Str_NKEY, Str_RATE, Str_RMOT, Str_STEP }

\* other identifier fields: lower case, NUL padded, NUL prefixed, all NUL,
\* unknown text, and a non-ASCII byte
OtherIdentifiers ==
    { <<114, 97, 116, 101>>, <<82, 65, 84, 0>>, <<0, 82, 65, 84>>,
      <<0, 0, 0, 0>>, <<88, 88, 88, 88>>, <<71, 80, 83, 0>>,
      <<82, 65, 84, 197>> }

\* stratum-0 replies
Kisses(wire) ==
    { MkDatagram(b0, 0, ZeroBytes(10), id, ZeroBytes(8), org, ServerTimeA, xmt) :
        b0 \in {35, 36}, id \in KissStrings \cup OtherIdentifiers,
        org \in {Echo(wire), ZeroBytes(8)},
        xmt \in {ServerTimeA, ZeroBytes(8)} }

\* datagrams of every length 0..MaxWireLen, with a good and a bad version,
\* and with the fields the decoder does not model filled in
Lengths(wire) ==
    { SubSeq(MkDatagram(b0, 1, [i \in 1..10 |-> 16 * i], Str_LOCL, ZeroBytes(8),
                        Echo(wire), ServerTimeA, ServerTimeA)
                \o [i \in 1..(MaxWireLen - ENCODED_LEN) |-> 170],
             1, n) :
        b0 \in {36, 28}, n \in 0..MaxWireLen }

\* stratum-0 datagrams that are cut short, or carry version 3, the modes 1
\* and 6, or a non-ASCII identifier
MalformedKisses(wire) ==
    { SubSeq(MkDatagram(b0, 0, ZeroBytes(10), id, ZeroBytes(8), Echo(wire),
                        ServerTimeA, ServerTimeA), 1, n) :
        b0 \in {36, 28, 30, 33, 38}, id \in {Str_RATE, <<82, 65, 84, 197>>},
        n \in {2, 16, ENCODED_LEN - 1, ENCODED_LEN} }

Datagrams(wire) ==
    HeaderSweep(wire) \cup Bodies(wire) \cup Kisses(wire) \cup Lengths(wire)
        \cup MalformedKisses(wire)

\* Packets handed to Reply::new_with_reply_time directly, as the unit tests do
DirectPackets(req) ==
    { [li                   |-> li,
       mode                 |-> mode,
       stratum              |-> st,
       reference_identifier |-> id,
       reference_timestamp  |-> zero,
       originate_timestamp  |-> org,
       receive_timestamp    |-> from_systemtime([secs |-> 1793523599, nanos |-> 600000000]),
       transmit_timestamp   |-> xmt] :
        li \in {"NoWarning", "AlarmCondition"},
        mode \in {"Client", "Server", "Broadcast"},
        st \in {0, 1, 255},
        id \in {Empty, ASCII(Str_RATE), ASCII(Str_LOCL),
                IpAddress([family |-> "V4", octets |-> <<82, 65, 84, 69>>]),
                MD5Hash(<<21057, 21573>>)},
        org \in {req.packet.transmit_timestamp, zero,
                 from_systemtime([secs |-> 1793523600, nanos |-> 100000000])},
        xmt \in {zero} \cup { from_systemtime(t) : t \in ServerInstants } }

\* what a failed recv_from reports: the read timeout expired, or another error
IOErrors == {"TimedOut", "recv_from failed"}

\* the entry points: the two synchronize functions, the one taking the
\* request's time from the caller, and the unit tests of core_logic.rs, which
\* pair a Request with a Packet without a socket
Clients ==
    { "SntpClient::synchronize", "AsyncSntpClient::synchronize",
      "AsyncSntpClient::synchronize_with_reference_time", "tests" }

\* replies given to the asynchronous entry points, which decode and validate
\* with the same functions: short, exact and long datagrams, and replies
\* that are accepted, stale, kisses or without a transmit time
SampleDatagrams(wire) ==
    { d \in Lengths(wire) : Len(d) \in {0, ENCODED_LEN - 1, ENCODED_LEN, MaxWireLen} }
    \cup { MkDatagram(b0, st, ZeroBytes(10), id, ZeroBytes(8), org, ServerTimeA, xmt) :
             b0 \in {35, 36}, st \in {0, 1}, id \in {Str_LOCL, Str_RATE},
             org \in {Echo(wire), ZeroBytes(8)},
             xmt \in {ServerTimeA, ZeroBytes(8)} }

\* what recv_from can deliver to an entry point
Received(entry, wire) ==
    IF entry = "SntpClient::synchronize" THEN Datagrams(wire) ELSE SampleDatagrams(wire)

(***************************************************************************)
(* State: one call of a synchronize function (lib.rs), or one pairing of   *)
(* a Request with a Packet through Reply::new_with_reply_time.             *)
(***************************************************************************)
VARIABLES
    client,          \* the entry point that was called
    reference_time,  \* the reference_time argument, once used
    pc,              \* position in synchronize
    via,             \* "network" or "direct": how the reply packet was obtained
    request,         \* the Request, once built
    sent,            \* the bytes given to socket.send
    receive_buffer,  \* receive_buffer[..bytes_received]
    server_address,  \* the source address recv_from reported
    packet,          \* the Packet decoded from the datagram
    reply,           \* the Reply
    outcome,         \* the value synchronize / process returned
    clock_reads,     \* the readings of SystemTime::now(), in order
    sends,           \* number of calls of socket.send
    recvs,           \* number of calls of socket.recv_from
    operands,        \* the arguments of the functions applied on their own
    results          \* what those functions returned for them

vars == <<client, reference_time, pc, via, request, sent, receive_buffer,
          server_address, packet, reply, outcome, clock_reads, sends, recvs,
          operands, results>>

\* the call itself: nothing but the entry point is chosen
InitCall ==
    /\ reference_time = NoValue
    /\ via = "network"
    /\ request = NoValue
    /\ sent = <<>>
    /\ receive_buffer = <<>>
    /\ server_address = NoValue
    /\ packet = NoValue
    /\ reply = NoValue
    /\ outcome = NoValue
    /\ clock_reads = <<>>
    /\ sends = 0
    /\ recvs = 0

Init ==
    /\ pc = "start"
    /\ client \in Clients
    /\ InitCall
    /\ operands = NoValue
    /\ results = NoValue

\* an I/O call failed: synchronize returns the error through `?`
Fail(at, io_error) ==
    /\ pc = at
    /\ pc' = "done"
    /\ outcome' = Err(SyncIOError(io_error))

\* std::net::UdpSocket::bind(self.config.bind_address)?
Bind ==
    /\ pc = "start"
    /\ client # "tests"
    /\ pc' = IF client = "SntpClient::synchronize" THEN "bound" ELSE "configured"
    /\ UNCHANGED <<via, request, sent, receive_buffer, server_address, packet,
                   reply, outcome, clock_reads, sends, recvs>>
    /\ UNCHANGED <<client, reference_time, operands, results>>

BindFail ==
    /\ client # "tests"
    /\ Fail("start", "bind failed")
    /\ UNCHANGED <<via, request, sent, receive_buffer, server_address, packet,
                   reply, clock_reads, sends, recvs>>
    /\ UNCHANGED <<client, reference_time, operands, results>>

\* socket.set_read_timeout(Some(self.config.timeout))?
SetReadTimeout ==
    /\ pc = "bound"
    /\ pc' = "configured"
    /\ UNCHANGED <<via, request, sent, receive_buffer, server_address, packet,
                   reply, outcome, clock_reads, sends, recvs>>
    /\ UNCHANGED <<client, reference_time, operands, results>>

SetReadTimeoutFail ==
    /\ Fail("bound", "set_read_timeout failed")
    /\ UNCHANGED <<via, request, sent, receive_buffer, server_address, packet,
                   reply, clock_reads, sends, recvs>>
    /\ UNCHANGED <<client, reference_time, operands, results>>

\* socket.connect(server_address.to_server_addrs(SNTP_PORT))?
Connect ==
    /\ pc = "configured"
    /\ pc' = "connected"
    /\ UNCHANGED <<via, request, sent, receive_buffer, server_address, packet,
                   reply, outcome, clock_reads, sends, recvs>>
    /\ UNCHANGED <<client, reference_time, operands, results>>

ConnectFail ==
    /\ Fail("configured", "connect failed")
    /\ UNCHANGED <<via, request, sent, receive_buffer, server_address, packet,
                   reply, clock_reads, sends, recvs>>
    /\ UNCHANGED <<client, reference_time, operands, results>>

\* let request = Request::new();
RequestNew ==
    /\ \/ pc = "connected" /\ client \in {"SntpClient::synchronize", "AsyncSntpClient::synchronize"}
       \/ pc = "start" /\ client = "tests"
    /\ \E now \in ClockInstants :
        /\ request' = new_with_transmit_time(now)
        /\ clock_reads' = Append(clock_reads, now)
    /\ pc' = "built"
    /\ UNCHANGED <<via, sent, receive_buffer, server_address, packet, reply,
                   outcome, sends, recvs>>
    /\ UNCHANGED <<client, reference_time, operands, results>>

\* let request = Request::new_with_transmit_time(reference_time);
RequestNewWithTransmitTime ==
    /\ pc = "connected"
    /\ client = "AsyncSntpClient::synchronize_with_reference_time"
    /\ \E t \in ClockInstants :
        /\ request' = new_with_transmit_time(t)
        /\ reference_time' = t
    /\ pc' = "built"
    /\ UNCHANGED <<client, via, sent, receive_buffer, server_address, packet, reply,
                   outcome, clock_reads, sends, recvs, operands, results>>

\* socket.send(&request.as_bytes())?
Send ==
    /\ pc = "built"
    /\ client # "tests"
    /\ LET bytes == as_bytes(request)
       IN  IF bytes.ok
           THEN /\ sent' = bytes.val
                /\ sends' = sends + 1
                /\ pc' = "sent"
                /\ outcome' = outcome
           ELSE /\ outcome' = [panic |-> bytes.err]
                /\ pc' = "done"
                /\ UNCHANGED <<sent, sends>>
    /\ UNCHANGED <<via, request, receive_buffer, server_address, packet, reply,
                   clock_reads, recvs>>
    /\ UNCHANGED <<client, reference_time, operands, results>>

SendFail ==
    /\ client # "tests"
    /\ Fail("built", "send failed")
    /\ as_bytes(request).ok
    /\ sent' = as_bytes(request).val
    /\ sends' = sends + 1
    /\ UNCHANGED <<via, request, receive_buffer, server_address, packet, reply,
                   clock_reads, recvs>>
    /\ UNCHANGED <<client, reference_time, operands, results>>

\* let (bytes_received, server_address) = socket.recv_from(&mut receive_buffer)?;
\* the buffer holds ENCODED_LEN bytes, a longer datagram is cut to it
Recv ==
    /\ pc = "sent"
    /\ \E wire \in Received(client, sent), from \in Addresses :
        /\ receive_buffer' =
              SubSeq(wire, 1, IF Len(wire) < ENCODED_LEN THEN Len(wire) ELSE ENCODED_LEN)
        /\ server_address' = from
    /\ recvs' = recvs + 1
    /\ pc' = "received"
    /\ UNCHANGED <<via, request, sent, packet, reply, outcome, clock_reads, sends>>
    /\ UNCHANGED <<client, reference_time, operands, results>>

\* a synchronize that takes a failed recv_from for an empty datagram
RecvFail_as_empty_datagram ==
    /\ pc = "sent"
    /\ receive_buffer' = <<>>
    /\ recvs' = recvs + 1
    /\ pc' = "received"
    /\ UNCHANGED <<via, request, sent, server_address, packet, reply, outcome,
                   clock_reads, sends>>
    /\ UNCHANGED <<client, reference_time, operands, results>>

\* no datagram within the timeout (the read timeout of the socket, or
\* tokio's timeout mapped to ErrorKind::TimedOut), or another socket error
RecvFail ==
    /\ \E e \in IOErrors : Fail("sent", e)
    /\ recvs' = recvs + 1
    /\ UNCHANGED <<via, request, sent, receive_buffer, server_address, packet,
                   reply, clock_reads, sends>>
    /\ UNCHANGED <<client, reference_time, operands, results>>

\* a Decode that looks at the stratum byte first and reports a Kiss-o'-Death
\* for a zero before decoding the rest
Decode_kiss_before_decoding ==
    /\ pc = "received"
    /\ LET decoded == Packet_from_bytes(receive_buffer, server_address)
       IN  IF Len(receive_buffer) >= 2 /\ receive_buffer[2] = 0
           THEN /\ outcome' = Err(SyncProtocolError(KissODeath("Unknown")))
                /\ pc' = "done"
                /\ packet' = packet
           ELSE IF decoded.ok
           THEN /\ packet' = decoded.val
                /\ pc' = "decoded"
                /\ outcome' = outcome
           ELSE /\ outcome' = Err(SyncProtocolError(decoded.err))
                /\ pc' = "done"
                /\ packet' = packet
    /\ UNCHANGED <<via, request, sent, receive_buffer, server_address, reply,
                   clock_reads, sends, recvs>>
    /\ UNCHANGED <<client, reference_time, operands, results>>

\* a synchronize that waits for another datagram when one does not decode
Decode_receiving_again ==
    /\ pc = "received"
    /\ LET decoded == Packet_from_bytes(receive_buffer, server_address)
       IN  IF decoded.ok
           THEN /\ packet' = decoded.val
                /\ pc' = "decoded"
           ELSE /\ pc' = "sent"
                /\ packet' = packet
    /\ UNCHANGED <<via, request, sent, receive_buffer, server_address, reply,
                   outcome, clock_reads, sends, recvs>>
    /\ UNCHANGED <<client, reference_time, operands, results>>

\* Packet::from_bytes(&receive_buffer[..bytes_received], server_address)?
Decode ==
    /\ pc = "received"
    /\ LET decoded == Packet_from_bytes(receive_buffer, server_address)
       IN  IF Packet_from_bytes_out_of_range(receive_buffer, server_address)
           THEN /\ outcome' = [panic |-> "index out of range"]
                /\ pc' = "done"
                /\ packet' = packet
           ELSE IF decoded.ok
           THEN /\ packet' = decoded.val
                /\ pc' = "decoded"
                /\ outcome' = outcome
           ELSE /\ outcome' = Err(SyncProtocolError(decoded.err))
                /\ pc' = "done"
                /\ packet' = packet
    /\ UNCHANGED <<via, request, sent, receive_buffer, server_address, reply,
                   clock_reads, sends, recvs>>
    /\ UNCHANGED <<client, reference_time, operands, results>>

\* a Reply::new stamping the reply with the time the request was stamped with
ReplyNew_without_reading_the_clock ==
    /\ pc = "decoded"
    /\ reply' = new_with_reply_time(request, packet,
                    IF reference_time # NoValue THEN reference_time ELSE clock_reads[1])
    /\ pc' = "paired"
    /\ UNCHANGED <<via, request, sent, receive_buffer, server_address, packet,
                   outcome, clock_reads, sends, recvs>>
    /\ UNCHANGED <<client, reference_time, operands, results>>

\* Reply::new(request, packet): reads the clock
ReplyNew ==
    /\ pc = "decoded"
    /\ \E now \in ClockInstants :
        /\ reply' = new_with_reply_time(request, packet, now)
        /\ clock_reads' = Append(clock_reads, now)
    /\ pc' = "paired"
    /\ UNCHANGED <<via, request, sent, receive_buffer, server_address, packet,
                   outcome, sends, recvs>>
    /\ UNCHANGED <<client, reference_time, operands, results>>

\* Reply::new_with_reply_time(request, reply_packet, reply_time) on a Packet
\* built by the caller, as in the tests of core_logic.rs
ReplyNewWithReplyTime ==
    /\ pc = "built"
    /\ client = "tests"
    /\ \E reply_packet \in DirectPackets(request), reply_time \in ClockInstants :
        /\ packet' = reply_packet
        /\ reply' = new_with_reply_time(request, reply_packet, reply_time)
    /\ via' = "direct"
    /\ pc' = "paired"
    /\ UNCHANGED <<request, sent, receive_buffer, server_address, outcome,
                   clock_reads, sends, recvs>>
    /\ UNCHANGED <<client, reference_time, operands, results>>

\* reply.process()
Process ==
    /\ pc = "paired"
    /\ outcome' = IF process_overflows(reply)
                  THEN [panic |-> "attempt to subtract with overflow"]
                  ELSE process(reply)
    /\ pc' = "done"
    /\ UNCHANGED <<via, request, sent, receive_buffer, server_address, packet,
                   reply, clock_reads, sends, recvs>>
    /\ UNCHANGED <<client, reference_time, operands, results>>

Next ==
    \/ Bind
    \/ BindFail
    \/ SetReadTimeout
    \/ SetReadTimeoutFail
    \/ Connect
    \/ ConnectFail
    \/ RequestNew
    \/ RequestNewWithTransmitTime
    \/ Send
    \/ SendFail
    \/ Recv
    \/ RecvFail
    \/ Decode
    \/ ReplyNew
    \/ ReplyNewWithReplyTime
    \/ Process

Spec == Init /\ [][Next]_vars

Positions ==
    { "start", "bound", "configured", "connected", "built", "sent", "received",
      "decoded", "paired", "done" }

\* the statement synchronize is at completes: control moves to another
\* position (every action above changes pc, and one of them is enabled at
\* every position but "done")
Advance == pc # "done" /\ pc' \in Positions \ {pc}

\* Every statement is a call that returns: bind, connect and send do not wait
\* for the peer, recv_from is bounded by the read timeout set before it (by
\* tokio's timeout in the asynchronous client), the rest is computation.
FairSpec == Spec /\ WF_pc(Advance)

(***************************************************************************)
(* SntpTimestamp on its own: a pair of 8-byte fields or of instants is     *)
(* converted, encoded and subtracted.                                      *)
(***************************************************************************)
\* the fields of the tests of packet.rs, the ends of both eras and the fields
\* next to them, and the fields of three of the clock readings above
TimestampBytes ==
    { <<197, 2, 3, 76, 54, 187, 169, 142>>,
      <<197, 2, 3, 76, 54, 187, 169, 138>>,
      <<8, 29, 209, 128, 128, 0, 0, 0>>,
      <<0, 0, 0, 0, 0, 0, 0, 0>>,
      <<0, 0, 0, 0, 0, 0, 0, 1>>,
      <<127, 255, 255, 255, 255, 255, 255, 255>>,
      <<128, 0, 0, 0, 0, 0, 0, 0>>,
      <<255, 255, 255, 255, 255, 255, 255, 255>>,
      <<255, 255, 255, 255, 255, 255, 255, 251>>,
      <<238, 145, 126, 16, 0, 0, 0, 0>>,
      <<0, 0, 0, 4, 64, 0, 0, 0>> }

\* the Unix epoch, the instant of the tests of packet.rs, one nanosecond and
\* one hour after it, instants one nanosecond apart across a second, and the
\* instants around the rollover of the 32-bit seconds field
TimestampInstants ==
    { [secs |-> 0, nanos |-> 0],
      [secs |-> 1096254668, nanos |-> 213800999],
      [secs |-> 1096254668, nanos |-> 213801000],
      [secs |-> 1096258268, nanos |-> 213800999],
      [secs |-> 1793523599, nanos |-> 999999999],
      [secs |-> 1793523600, nanos |-> 0],
      [secs |-> 1793523600, nanos |-> 1],
      [secs |-> 2085978495, nanos |-> 999999999],
      [secs |-> 2085978496, nanos |-> 0],
      [secs |-> 2085978500, nanos |-> 250000000] }

TimestampOperands ==
    [kind : {"bytes"}, a : TimestampBytes, b : TimestampBytes]
    \cup [kind : {"instant"}, a : TimestampInstants, b : TimestampInstants]

InitTimestamp ==
    /\ pc = "operands"
    /\ client = "tests"
    /\ InitCall
    /\ operands \in TimestampOperands
    /\ results = NoValue

\* SntpTimestamp::from_bytes(bytes)
TimestampFromBytes ==
    /\ pc = "operands"
    /\ operands.kind = "bytes"
    /\ results' = [a |-> SntpTimestamp_from_bytes(operands.a),
                   b |-> SntpTimestamp_from_bytes(operands.b)]
    /\ pc' = "timestamps"
    /\ UNCHANGED <<client, reference_time, via, request, sent, receive_buffer,
                   server_address, packet, reply, outcome, clock_reads, sends,
                   recvs, operands>>

\* SntpTimestamp::from_systemtime(system_time)
TimestampFromSystemTime ==
    /\ pc = "operands"
    /\ operands.kind = "instant"
    /\ results' = [a |-> from_systemtime(operands.a),
                   b |-> from_systemtime(operands.b)]
    /\ pc' = "timestamps"
    /\ UNCHANGED <<client, reference_time, via, request, sent, receive_buffer,
                   server_address, packet, reply, outcome, clock_reads, sends,
                   recvs, operands>>

\* self.to_bytes()
TimestampToBytes ==
    /\ pc = "timestamps"
    /\ results' = [a       |-> results.a,
                   b       |-> results.b,
                   a_bytes |-> SntpTimestamp_to_bytes(results.a),
                   b_bytes |-> SntpTimestamp_to_bytes(results.b)]
    /\ pc' = "encoded"
    /\ UNCHANGED <<client, reference_time, via, request, sent, receive_buffer,
                   server_address, packet, reply, outcome, clock_reads, sends,
                   recvs, operands>>

\* self - rhs, as Sub::sub returns it or aborts
Minus(self, rhs) ==
    IF SntpTimestamp_sub_overflows(self, rhs)
    THEN Err("attempt to subtract with overflow")
    ELSE Ok(SntpTimestamp_sub(self, rhs))

\* a - b, b - a and a - a
TimestampSub ==
    /\ pc = "encoded"
    /\ results' = [a         |-> results.a,
                   b         |-> results.b,
                   a_bytes   |-> results.a_bytes,
                   b_bytes   |-> results.b_bytes,
                   a_minus_b |-> Minus(results.a, results.b),
                   b_minus_a |-> Minus(results.b, results.a),
                   a_minus_a |-> Minus(results.a, results.a)]
    /\ pc' = "subtracted"
    /\ UNCHANGED <<client, reference_time, via, request, sent, receive_buffer,
                   server_address, packet, reply, outcome, clock_reads, sends,
                   recvs, operands>>

NextTimestamp ==
    \/ TimestampFromBytes
    \/ TimestampFromSystemTime
    \/ TimestampToBytes
    \/ TimestampSub

SpecTimestamp == InitTimestamp /\ [][NextTimestamp]_vars

(***************************************************************************)
(* Packet on its own: a Packet is encoded and the bytes decoded again, a    *)
(* pair of datagrams is decoded, a byte is converted to a LeapIndicator     *)
(* and back.                                                                *)
(***************************************************************************)
\* Packets as the tests of packet.rs build them: the timestamps of
\* encoding_a_packet_works, zero, a field of the era of 2036, and the
\* timestamp of an instant of the year 2189, too late to encode
PacketSamples ==
    [li                   : {"NoWarning", "LastMinuteHas59Seconds",
                             "LastMinuteHas61Seconds", "AlarmCondition"},
     mode                 : {"Client", "Server", "Broadcast"},
     stratum              : {0, 2, 255},
     reference_identifier : {Empty, ASCII(<<97, 98, 99, 100>>),
                             IpAddress([family |-> "V4", octets |-> <<204, 123, 2, 72>>])},
     reference_timestamp  : {SntpTimestamp_from_bytes(<<197, 2, 2, 172, 65, 110, 21, 135>>)},
     originate_timestamp  : {zero, SntpTimestamp_from_bytes(<<197, 2, 4, 236, 238, 211, 60, 82>>)},
     receive_timestamp    : {SntpTimestamp_from_bytes(<<197, 2, 4, 235, 217, 216, 215, 157>>),
                             SntpTimestamp_from_bytes(<<8, 29, 209, 128, 128, 0, 0, 0>>)},
     transmit_timestamp   : {SntpTimestamp_from_bytes(<<197, 2, 4, 235, 217, 220, 181, 120>>),
                             from_systemtime([secs_u64 |-> <<0, 1, 40000, 0>>,
                                              nanos    |-> 500000000])}]

\* bytes 12..47 of decoding_a_packet_works
TestBody ==
    <<204, 123, 2, 72, 197, 2, 2, 172, 65, 110, 21, 135, 197, 2, 4, 236,
      238, 211, 60, 82, 197, 2, 4, 235, 217, 216, 215, 157, 197, 2, 4, 235,
      217, 220, 181, 120>>

\* bytes 0, 1 and 12..47 of a datagram: every first byte, and strata and
\* identifiers of every kind
Headings ==
    { <<b0, 1>> \o Str_LOCL \o SubSeq(TestBody, 5, 36) : b0 \in 0..255 }
    \cup { <<b0, st>> \o id \o SubSeq(TestBody, 5, 36) :
             b0 \in {35, 36}, st \in {0, 1, 2},
             id \in {Str_RATE, <<0, 0, 0, 0>>, <<204, 123, 2, 72>>} }

\* bytes 2..11: the poll, precision, root delay and root dispersion fields
Fillers ==
    { ZeroBytes(10), <<10, 236, 0, 0, 2, 134, 0, 0, 11, 51>>, [i \in 1..10 |-> 255] }

Laid(heading, filler, tail) ==
    SubSeq(heading, 1, 2) \o filler \o SubSeq(heading, 3, 38) \o tail

\* a plain datagram against one with the same heading, other bytes 2..11
\* and no, one or four bytes after the 48th, and a pair whose headings
\* differ in the stratum
DatagramPairs ==
    { [a |-> Laid(h, ZeroBytes(10), <<>>), b |-> Laid(h, f, t)] :
        h \in Headings, f \in Fillers, t \in {<<>>, <<170>>, <<1, 2, 3, 4>>} }
    \cup { [a |-> Laid(h, ZeroBytes(10), <<>>),
            b |-> Laid(<<h[1], 3>> \o SubSeq(h, 3, 38), f, <<>>)] :
             h \in { g \in Headings : g[1] = 36 }, f \in Fillers }

PacketOperands ==
    [kind : {"packet"}, packet : PacketSamples]
    \cup [kind : {"datagrams"}, pair : DatagramPairs, server_address : Addresses]
    \cup [kind : {"leap"}, raw : 0..255]

InitPacket ==
    /\ pc = "packet operands"
    /\ client = "tests"
    /\ InitCall
    /\ operands \in PacketOperands
    /\ results = NoValue

\* packet.to_bytes(), as it returns or aborts
PacketToBytes ==
    /\ pc = "packet operands"
    /\ operands.kind = "packet"
    /\ results' = [bytes |-> Packet_to_bytes(operands.packet)]
    /\ pc' = "packet encoded"
    /\ UNCHANGED <<client, reference_time, via, request, sent, receive_buffer,
                   server_address, packet, reply, outcome, clock_reads, sends,
                   recvs, operands>>

\* Packet::from_bytes on the bytes to_bytes returned
PacketFromEncoded ==
    /\ pc = "packet encoded"
    /\ results.bytes.ok
    /\ \E addr \in Addresses :
         results' = [bytes   |-> results.bytes,
                     decoded |-> Packet_from_bytes(results.bytes.val, addr)]
    /\ pc' = "packet decoded"
    /\ UNCHANGED <<client, reference_time, via, request, sent, receive_buffer,
                   server_address, packet, reply, outcome, clock_reads, sends,
                   recvs, operands>>

\* Packet::from_bytes on both datagrams of a pair, from the same address
PacketFromBytes ==
    /\ pc = "packet operands"
    /\ operands.kind = "datagrams"
    /\ results' = [a |-> Packet_from_bytes(operands.pair.a, operands.server_address),
                   b |-> Packet_from_bytes(operands.pair.b, operands.server_address)]
    /\ pc' = "packet decoded"
    /\ UNCHANGED <<client, reference_time, via, request, sent, receive_buffer,
                   server_address, packet, reply, outcome, clock_reads, sends,
                   recvs, operands>>

\* LeapIndicator::from_u8(raw)
LeapFromU8 ==
    /\ pc = "packet operands"
    /\ operands.kind = "leap"
    /\ results' = [li |-> LeapIndicator_from_u8(operands.raw)]
    /\ pc' = "leap decoded"
    /\ UNCHANGED <<client, reference_time, via, request, sent, receive_buffer,
                   server_address, packet, reply, outcome, clock_reads, sends,
                   recvs, operands>>

\* li.to_u8() on the LeapIndicator from_u8 returned
LeapToU8 ==
    /\ pc = "leap decoded"
    /\ results.li.ok
    /\ results' = [li |-> results.li, raw |-> LeapIndicator_to_u8(results.li.val)]
    /\ pc' = "leap encoded"
    /\ UNCHANGED <<client, reference_time, via, request, sent, receive_buffer,
                   server_address, packet, reply, outcome, clock_reads, sends,
                   recvs, operands>>

NextPacket ==
    \/ PacketToBytes
    \/ PacketFromEncoded
    \/ PacketFromBytes
    \/ LeapFromU8
    \/ LeapToU8

SpecPacket == InitPacket /\ [][NextPacket]_vars

\* a call of a synchronize function, or a Packet encoded on its own
SpecEncoding == (Init \/ InitPacket) /\ [][Next \/ NextPacket]_vars

(***************************************************************************)
(* A timestamp from each constructor is encoded; the one of a Request is   *)
(* echoed by a server and the reply validated.                             *)
(***************************************************************************)
\* instants of SystemTime after 2038: 2053, the second before and the second
\* at which the timestamp reaches 2^64 + 2^63 (2104-02-26 09:42:24), 2106,
\* and the second before and the second at which it reaches 2^65
\* (2172-03-15 12:56:32), and 2189
LateInstants ==
    { [secs_u64 |-> <<0, 0, 40000, 0>>, nanos |-> 0],
      [secs_u64 |-> <<0, 0, 64597, 33151>>, nanos |-> 999999999],
      [secs_u64 |-> <<0, 0, 64597, 33152>>, nanos |-> 0],
      [secs_u64 |-> <<0, 1, 0, 0>>, nanos |-> 250000000],
      [secs_u64 |-> <<0, 1, 31829, 33151>>, nanos |-> 999999999],
      [secs_u64 |-> <<0, 1, 31829, 33152>>, nanos |-> 0],
      [secs_u64 |-> <<0, 1, 40000, 0>>, nanos |-> 500000000] }

InitEcho ==
    /\ pc = "echo operands"
    /\ client = "tests"
    /\ InitCall
    /\ operands \in
         [kind : {"zero"}]
         \cup [kind : {"bytes"}, bytes : TimestampBytes]
         \cup [kind : {"instant"}, instant : TimestampInstants \cup LateInstants]
    /\ results = NoValue

\* SntpTimestamp::zero(), SntpTimestamp::from_bytes(bytes), or
\* Request::new_with_transmit_time(instant)
EchoConstruct ==
    /\ pc = "echo operands"
    /\ results' =
         CASE operands.kind = "zero"    -> [timestamp |-> zero]
           [] operands.kind = "bytes"   -> [timestamp |-> SntpTimestamp_from_bytes(operands.bytes)]
           [] operands.kind = "instant" ->
                LET built == new_with_transmit_time(operands.instant)
                IN  [timestamp |-> built.packet.transmit_timestamp, request |-> built]
    /\ pc' = "echo constructed"
    /\ UNCHANGED <<client, reference_time, via, request, sent, receive_buffer,
                   server_address, packet, reply, outcome, clock_reads, sends,
                   recvs, operands>>

\* timestamp.to_bytes(), or request.as_bytes() for a Request, as they return
\* or abort
EchoToBytes ==
    /\ pc = "echo constructed"
    /\ results' =
         IF operands.kind = "instant"
         THEN LET bytes == as_bytes(results.request)
              IN  [timestamp |-> results.timestamp,
                   request   |-> results.request,
                   bytes     |-> IF bytes.ok THEN Ok(SubSeq(bytes.val, 41, 48)) ELSE bytes,
                   wire      |-> bytes]
         ELSE [timestamp |-> results.timestamp,
               bytes     |-> SntpTimestamp_to_bytes(results.timestamp)]
    /\ pc' = "echo encoded"
    /\ UNCHANGED <<client, reference_time, via, request, sent, receive_buffer,
                   server_address, packet, reply, outcome, clock_reads, sends,
                   recvs, operands>>

\* a server copies the request's transmit field into the originate field of
\* its reply; the reply is decoded, paired with the request and processed
EchoReply ==
    /\ pc = "echo encoded"
    /\ operands.kind = "instant"
    /\ results.wire.ok
    /\ \E st \in {1, 2}, addr \in Addresses, xmt \in ServerTimes :
         LET data    == MkDatagram(36, st, ZeroBytes(10), Str_LOCL, ZeroBytes(8),
                                   Echo(results.wire.val), xmt, xmt)
             decoded == Packet_from_bytes(data, addr)
             paired  == new_with_reply_time(results.request, decoded.val, operands.instant)
         IN  results' = [timestamp |-> results.timestamp,
                         request   |-> results.request,
                         bytes     |-> results.bytes,
                         wire      |-> results.wire,
                         data      |-> data,
                         decoded   |-> decoded,
                         outcome   |-> IF process_overflows(paired)
                                       THEN [panic |-> "attempt to subtract with overflow"]
                                       ELSE process(paired)]
    /\ pc' = "echo processed"
    /\ UNCHANGED <<client, reference_time, via, request, sent, receive_buffer,
                   server_address, packet, reply, outcome, clock_reads, sends,
                   recvs, operands>>

NextEcho ==
    \/ EchoConstruct
    \/ EchoToBytes
    \/ EchoReply

SpecEcho == InitEcho /\ [][NextEcho]_vars

\* a * k, for 0 <= k < 2^15
RECURSIVE MulLimbs(_, _, _, _)
MulLimbs(a, k, i, carry) ==
    IF i = 0 THEN <<>>
    ELSE LET p == a[i] * k + carry
         IN  MulLimbs(a, k, i - 1, p \div Base) \o <<p % Base>>

\* a * 1_000_000_000, as a * 15258 * 2^16 + 2 * (a * 25856)
TimesNanosPerSec(a) ==
    LET hi == MulLimbs(a, 15258, U128Limbs, 0)
        lo == MulLimbs(a, 25856, U128Limbs, 0)
    IN  U128Add([i \in 1..U128Limbs |-> IF i < U128Limbs THEN hi[i + 1] ELSE 0],
                U128Add(lo, lo))

(***************************************************************************)
(* SntpDuration, SntpDateTime, SynchronizationResult (result.rs).  A       *)
(* std::time::Duration is its count of nanoseconds, a SystemTime the       *)
(* signed count of nanoseconds from the Unix epoch.                        *)
(***************************************************************************)
\* Duration::try_from_secs_f64(secs) for secs >= 0: an error from 2^64
\* seconds on, else the nanoseconds nearest to secs, ties to even
try_from_secs_f64(secs) ==
    IF secs.mag[1] # 0 \/ secs.mag[2] >= 2 THEN Err("TryFromFloatSecsError")
    ELSE LET scaled == TimesNanosPerSec(secs.mag)
             whole  == U128Shr1([i \in 1..U128Limbs |-> IF i > 2 THEN scaled[i - 2] ELSE 0])
             half   == scaled[6] % 2 = 1
             below  == scaled[7] # 0 \/ scaled[8] # 0
             up     == half /\ (below \/ whole[8] % 2 = 1)
         IN  Ok(IF up THEN U128Add(whole, U128FromNat(1)) ELSE whole)

abs_as_std_duration(self) ==
    LET converted == try_from_secs_f64(F64(FALSE, self.mag))
    IN  IF converted.ok THEN converted ELSE Err("Overflow")

\* self.0.signum() as i32: 1.0 for +0.0 and above, -1.0 below
signum(self) == IF self.neg THEN -1 ELSE 1

\* SntpDateTime::new(self.clock_offset())
datetime(self) == [offset |-> self.clock_offset_s]

\* the SystemTime of an instant at or after the Unix epoch
SystemTimeOf(instant) ==
    [neg |-> FALSE,
     mag |-> U128Add(TimesNanosPerSec(as_secs(instant)), U128FromNat(instant.nanos))]

\* 2^63 seconds: the seconds of a SystemTime are an i64
SystemTimeLimit == TimesNanosPerSec(<<0, 0, 0, 0, 32768, 0, 0, 0>>)

\* SystemTime::checked_add(duration)
checked_add(self, duration) ==
    LET sum == SignedAdd(self, [neg |-> FALSE, mag |-> duration])
    IN  IF ~sum.neg /\ ~U128Less(sum.mag, SystemTimeLimit) THEN NoValue ELSE sum

\* SystemTime::checked_sub(duration)
checked_sub(self, duration) ==
    LET difference == SignedAdd(self, F64(TRUE, duration))
    IN  IF difference.neg /\ U128Less(SystemTimeLimit, difference.mag)
        THEN NoValue ELSE difference

\* unix_timestamp adding the offset whatever its sign
unix_timestamp_adding_always(self, now) ==
    LET abs       == abs_as_std_duration(self.offset)
        corrected == checked_add(now, abs.val)
    IN  IF ~abs.ok THEN abs
        ELSE IF corrected = NoValue THEN Err("Overflow")
        ELSE IF corrected.neg THEN Err("Overflow")
        ELSE Ok(corrected.mag)

\* SntpDateTime::unix_timestamp, with the reading of SystemTime::now()
unix_timestamp(self, now) ==
    LET abs       == abs_as_std_duration(self.offset)
        corrected == IF signum(self.offset) >= 0
                     THEN checked_add(now, abs.val)
                     ELSE checked_sub(now, abs.val)
    IN  IF ~abs.ok THEN abs
        ELSE IF corrected = NoValue THEN Err("Overflow")
        ELSE IF corrected.neg THEN Err("Overflow")
        ELSE Ok(corrected.mag)

\* TryInto<SystemTime> for SntpDateTime, with the reading of SystemTime::now()
into_system_time(self, now) ==
    LET abs       == abs_as_std_duration(self.offset)
        corrected == IF signum(self.offset) > 0
                     THEN checked_add(now, abs.val)
                     ELSE checked_sub(now, abs.val)
    IN  IF ~abs.ok THEN abs
        ELSE IF corrected = NoValue THEN Err("Overflow")
        ELSE Ok(corrected)

\* conversions made of one SntpDateTime
MaxConversions == 2

\* clock offsets: an hour either way as in the tests of result.rs, zero, a
\* quarter of a second, 2^-33 s and five times that, 2^-10 s (976562.5 ns),
\* -0.4 s, the offset that takes 2026-11-01 09:00:00 to 100 s before the Unix
\* epoch, 2^63 s either way, -(2^63 + 2^62) s and 2^65 s
ClockOffsets ==
    { F64(FALSE, <<0, 0, 0, 0, 0, 7200, 0, 0>>),
      F64(TRUE, <<0, 0, 0, 0, 0, 7200, 0, 0>>),
      F64Zero,
      F64(FALSE, <<0, 0, 0, 0, 0, 0, 32768, 0>>),
      F64(FALSE, <<0, 0, 0, 0, 0, 0, 0, 1>>),
      F64(TRUE, <<0, 0, 0, 0, 0, 0, 0, 5>>),
      F64(FALSE, <<0, 0, 0, 0, 0, 0, 128, 0>>),
      F64(TRUE, <<0, 0, 0, 0, 0, 0, 52428, 52428>>),
      F64(TRUE, <<0, 0, 0, 0, 54733, 65512, 0, 0>>),
      F64(FALSE, <<0, 1, 0, 0, 0, 0, 0, 0>>),
      F64(TRUE, <<0, 1, 0, 0, 0, 0, 0, 0>>),
      F64(TRUE, <<0, 1, 32768, 0, 0, 0, 0, 0>>),
      F64(FALSE, <<0, 4, 0, 0, 0, 0, 0, 0>>) }

\* SynchronizationResult::new(...)
InitResult ==
    /\ pc = "result"
    /\ client = "tests"
    /\ InitCall
    /\ operands \in
         [kind   : {"result"},
          result : [clock_offset_s       : ClockOffsets,
                    round_trip_delay_s   : {F64(FALSE, <<0, 0, 0, 0, 0, 0, 32768, 0>>)},
                    reference_identifier : {ASCII(Str_LOCL)},
                    leap_indicator       : {"NoWarning"},
                    stratum              : {1}]]
    /\ results = NoValue

\* result.datetime()
Datetime ==
    /\ pc = "result"
    /\ results' = [datetime |-> datetime(operands.result), conversions |-> <<>>]
    /\ pc' = "datetime"
    /\ UNCHANGED <<client, reference_time, via, request, sent, receive_buffer,
                   server_address, packet, reply, outcome, clock_reads, sends,
                   recvs, operands>>

\* readings SystemTime::now() can give next on a steady clock
NextReadings ==
    { t \in ClockInstants :
        clock_reads = <<>>
        \/ ~U128Less(SystemTimeOf(t).mag, SystemTimeOf(clock_reads[Len(clock_reads)]).mag) }

\* a conversion of the SntpDateTime reads the clock and returns
Converted(call, now, value) ==
    /\ Len(results.conversions) < MaxConversions
    /\ clock_reads' = Append(clock_reads, now)
    /\ results' = [datetime    |-> results.datetime,
                   conversions |-> Append(results.conversions,
                                          [call |-> call, now |-> now, value |-> value])]
    /\ pc' = "datetime"
    /\ UNCHANGED <<client, reference_time, via, request, sent, receive_buffer,
                   server_address, packet, reply, outcome, sends, recvs, operands>>

\* datetime.unix_timestamp()
UnixTimestamp ==
    /\ pc = "datetime"
    /\ \E now \in NextReadings :
         Converted("unix_timestamp", now,
                   unix_timestamp(results.datetime, SystemTimeOf(now)))

\* datetime.into_system_time()
IntoSystemTime ==
    /\ pc = "datetime"
    /\ \E now \in NextReadings :
         Converted("into_system_time", now,
                   into_system_time(results.datetime, SystemTimeOf(now)))

NextResult ==
    \/ Datetime
    \/ UnixTimestamp
    \/ IntoSystemTime

SpecResult == InitResult /\ [][NextResult]_vars

(***************************************************************************)
(* Two calls of SntpClient::synchronize running at once, on two threads.   *)
(* Every variable holds one value per call: the locals of that call.       *)
(***************************************************************************)
Attempts == {"A", "B"}

\* readings SystemTime::now() can give next: the clock is shared and steady
SteadyReadings ==
    { t \in ClockInstants :
        \A a \in Attempts : \A i \in 1..Len(clock_reads[a]) :
            ~U128Less(SystemTimeOf(t).mag, SystemTimeOf(clock_reads[a][i]).mag) }

\* what recv_from can deliver to a socket: a server's reply or a
\* Kiss-o'-Death to any request that is on the wire, to whichever socket, a
\* reply that echoes nothing, and a datagram cut short
PairDatagrams ==
    UNION { { MkDatagram(36, st, ZeroBytes(10), Str_RATE, ZeroBytes(8), Echo(sent[x]),
                         ServerTimeA, ServerTimeA) : st \in {0, 1} } :
            x \in { y \in Attempts : sent[y] # <<>> } }
    \cup { MkDatagram(36, 1, ZeroBytes(10), Str_LOCL, ZeroBytes(8), ZeroBytes(8),
                      ServerTimeA, ServerTimeA),
           <<36, 1, 0, 0>> }

InitPair ==
    /\ client = "SntpClient::synchronize"
    /\ reference_time = NoValue
    /\ via = "network"
    /\ pc = [a \in Attempts |-> "start"]
    /\ request = [a \in Attempts |-> NoValue]
    /\ sent = [a \in Attempts |-> <<>>]
    /\ receive_buffer = [a \in Attempts |-> <<>>]
    /\ server_address = [a \in Attempts |-> NoValue]
    /\ packet = [a \in Attempts |-> NoValue]
    /\ reply = [a \in Attempts |-> NoValue]
    /\ outcome = [a \in Attempts |-> NoValue]
    /\ clock_reads = [a \in Attempts |-> <<>>]
    /\ sends = [a \in Attempts |-> 0]
    /\ recvs = [a \in Attempts |-> 0]
    /\ operands = NoValue
    /\ results = NoValue

\* the call binds and connects its socket, builds its Request and sends it;
\* bind, set_read_timeout or connect may fail, and so may send
AttemptSend(a) ==
    /\ pc[a] = "start"
    /\ \/ /\ \E now \in SteadyReadings :
               /\ request' = [request EXCEPT ![a] = new_with_transmit_time(now)]
               /\ clock_reads' = [clock_reads EXCEPT ![a] = <<now>>]
               /\ sent' = [sent EXCEPT ![a] = as_bytes(new_with_transmit_time(now)).val]
          /\ sends' = [sends EXCEPT ![a] = 1]
          /\ \/ pc' = [pc EXCEPT ![a] = "sent"] /\ outcome' = outcome
             \/ /\ pc' = [pc EXCEPT ![a] = "done"]
                /\ outcome' = [outcome EXCEPT ![a] = Err(SyncIOError("send failed"))]
       \/ /\ pc' = [pc EXCEPT ![a] = "done"]
          /\ outcome' = [outcome EXCEPT ![a] = Err(SyncIOError("connect failed"))]
          /\ UNCHANGED <<request, clock_reads, sent, sends>>
    /\ UNCHANGED <<client, reference_time, via, receive_buffer, server_address,
                   packet, reply, recvs, operands, results>>

\* recv_from on the call's socket returns a datagram, or fails
AttemptRecv(a) ==
    /\ pc[a] = "sent"
    /\ recvs' = [recvs EXCEPT ![a] = 1]
    /\ \/ /\ \E wire \in PairDatagrams, from \in Addresses :
               /\ receive_buffer' = [receive_buffer EXCEPT ![a] =
                     SubSeq(wire, 1, IF Len(wire) < ENCODED_LEN THEN Len(wire)
                                                                ELSE ENCODED_LEN)]
               /\ server_address' = [server_address EXCEPT ![a] = from]
          /\ pc' = [pc EXCEPT ![a] = "received"]
          /\ outcome' = outcome
       \/ /\ \E e \in IOErrors : outcome' = [outcome EXCEPT ![a] = Err(SyncIOError(e))]
          /\ pc' = [pc EXCEPT ![a] = "done"]
          /\ UNCHANGED <<receive_buffer, server_address>>
    /\ UNCHANGED <<client, reference_time, via, request, sent, packet, reply,
                   clock_reads, sends, operands, results>>

\* a call pairing the reply with the Request of call A
AttemptProcess_sharing_the_request(a) ==
    /\ pc[a] = "received"
    /\ request["A"] # NoValue
    /\ LET decoded == Packet_from_bytes(receive_buffer[a], server_address[a])
       IN  IF ~decoded.ok
           THEN /\ outcome' = [outcome EXCEPT ![a] = Err(SyncProtocolError(decoded.err))]
                /\ UNCHANGED <<packet, reply, clock_reads>>
           ELSE \E now \in SteadyReadings :
                  LET paired == new_with_reply_time(request["A"], decoded.val, now)
                  IN  /\ packet' = [packet EXCEPT ![a] = decoded.val]
                      /\ clock_reads' = [clock_reads EXCEPT ![a] = Append(@, now)]
                      /\ reply' = [reply EXCEPT ![a] = paired]
                      /\ outcome' = [outcome EXCEPT ![a] =
                            IF process_overflows(paired)
                            THEN [panic |-> "attempt to subtract with overflow"]
                            ELSE process(paired)]
    /\ pc' = [pc EXCEPT ![a] = "done"]
    /\ UNCHANGED <<client, reference_time, via, request, sent, receive_buffer,
                   server_address, sends, recvs, operands, results>>

\* the call decodes its datagram, pairs it with its Request in Reply::new,
\* which reads the clock, and returns what Reply::process returns
AttemptProcess(a) ==
    /\ pc[a] = "received"
    /\ LET decoded == Packet_from_bytes(receive_buffer[a], server_address[a])
       IN  IF ~decoded.ok
           THEN /\ outcome' = [outcome EXCEPT ![a] = Err(SyncProtocolError(decoded.err))]
                /\ UNCHANGED <<packet, reply, clock_reads>>
           ELSE \E now \in SteadyReadings :
                  LET paired == new_with_reply_time(request[a], decoded.val, now)
                  IN  /\ packet' = [packet EXCEPT ![a] = decoded.val]
                      /\ clock_reads' = [clock_reads EXCEPT ![a] = Append(@, now)]
                      /\ reply' = [reply EXCEPT ![a] = paired]
                      /\ outcome' = [outcome EXCEPT ![a] =
                            IF process_overflows(paired)
                            THEN [panic |-> "attempt to subtract with overflow"]
                            ELSE process(paired)]
    /\ pc' = [pc EXCEPT ![a] = "done"]
    /\ UNCHANGED <<client, reference_time, via, request, sent, receive_buffer,
                   server_address, sends, recvs, operands, results>>

NextPair ==
    \E a \in Attempts :
        \/ AttemptSend(a)
        \/ AttemptRecv(a)
        \/ AttemptProcess(a)

SpecPair == InitPair /\ [][NextPair]_vars

(***************************************************************************)
(* Properties                                                              *)
(***************************************************************************)
\* Reply::process has run and returned
Processed == pc = "done" /\ reply # NoValue

\* Packet::from_bytes has run on a received datagram
DecodeRan == server_address # NoValue /\ pc # "received"

ProtocolFailure(kind) == Err(SyncProtocolError(ProtocolError(kind)))

\* the timestamps of the exchange: T1 from the first clock reading, T2 and T3
\* from the reply packet, T4 the arrival timestamp
T1 ==
    IF reference_time # NoValue THEN from_systemtime(reference_time)
    ELSE from_systemtime(clock_reads[1])
T2 == packet.receive_timestamp
T3 == packet.transmit_timestamp
T4 ==
    IF via = "network" THEN from_systemtime(clock_reads[Len(clock_reads)])
    ELSE reply.reply_timestamp

\* a - b as an exact signed count of 2^-32 s
TsDiff(a, b) ==
    IF ~U128Less(a, b) THEN F64(FALSE, U128Sub(a, b)) ELSE F64(TRUE, U128Sub(b, a))

\* 2^53: below it an integer converts to f64 unchanged
TwoPow53 == <<0, 0, 0, 0, 32, 0, 0, 0>>

Doubled(x) == F64(x.neg, U128Add(x.mag, x.mag))

\* C1: Reply::process returns a result if and only if the reply's stratum is
\* not 0, its originate timestamp equals the request's transmit timestamp, its
\* transmit timestamp is not the zero sentinel and its mode is Server or
\* Broadcast; nothing else (leap indicator, stratum 1..255, a negative
\* round-trip delay) rejects a reply.
C1_ResultIffFourChecksPass ==
    Processed =>
        (outcome.ok <=>
            /\ packet.stratum # 0
            /\ packet.originate_timestamp = request.packet.transmit_timestamp
            /\ packet.transmit_timestamp # zero
            /\ packet.mode \in {"Server", "Broadcast"})

\* an accepted reply with the alarm leap indicator, stratum 255 and a negative
\* round-trip delay
C1_Witness ==
    /\ Processed
    /\ outcome.ok
    /\ packet.li = "AlarmCondition"
    /\ packet.stratum = 255
    /\ outcome.val.round_trip_delay_s.neg

\* C2: whenever the reply's stratum is 0, Reply::process fails with
\* KissODeath(KissCode::new(reply.reference_identifier)), whatever the
\* originate timestamp, the transmit timestamp and the mode are.
C2_KissODeathFirst ==
    (Processed /\ packet.stratum = 0) =>
        outcome = Err(SyncProtocolError(KissODeath(KissCode_new(packet.reference_identifier))))

\* a stratum-0 reply failing every other check is reported as Kiss-o'-Death
C2_Witness ==
    /\ Processed
    /\ packet.stratum = 0
    /\ packet.originate_timestamp # request.packet.transmit_timestamp
    /\ packet.transmit_timestamp = zero
    /\ packet.mode = "Client"
    /\ outcome.err.protocol_error.kind = "KissODeath"

\* C3: for stratum # 0 the first failing check in the order originate,
\* transmit, mode is the one reported.
C3_FirstFailingCheck ==
    (Processed /\ packet.stratum # 0) =>
        IF packet.originate_timestamp # request.packet.transmit_timestamp
        THEN outcome = ProtocolFailure("InvalidOriginateTimestamp")
        ELSE IF packet.transmit_timestamp = zero
        THEN outcome = ProtocolFailure("InvalidTransmitTimestamp")
        ELSE packet.mode = "Client" => outcome = ProtocolFailure("InvalidMode")

\* a matching originate timestamp, a zero transmit timestamp and mode Client:
\* the transmit error is the one reported
C3_Witness ==
    /\ Processed
    /\ packet.stratum # 0
    /\ packet.originate_timestamp = request.packet.transmit_timestamp
    /\ packet.transmit_timestamp = zero
    /\ packet.mode = "Client"
    /\ outcome = ProtocolFailure("InvalidTransmitTimestamp")

\* C4: a datagram from the network that decodes, has stratum # 0, echoes the
\* request's transmit timestamp in its originate field and has bytes 40..47
\* all zero is rejected with InvalidTransmitTimestamp, its decoded transmit
\* timestamp being the zero sentinel.
C4_ZeroTransmitFieldRejected ==
    (/\ via = "network"
     /\ Processed
     /\ packet.stratum # 0
     /\ SubSeq(receive_buffer, 25, 32) = Echo(sent)
     /\ SubSeq(receive_buffer, 41, 48) = ZeroBytes(8))
    => /\ is_zero(packet.transmit_timestamp)
       /\ outcome = ProtocolFailure("InvalidTransmitTimestamp")

\* C5: an accepted reply yields round_trip_delay = (T4 - T1) - (T3 - T2) and
\* clock_offset = ((T2 - T1) + (T3 - T4)) / 2 in f64, T1 being the request's
\* transmit timestamp; while every difference and sum stays below 2^53
\* fixed-point units these are the exact values, 2 * offset = (T2 - T1) +
\* (T3 - T4) and delay = (T4 - T1) - (T3 - T2).  (Results count 2^-33 s, the
\* exact differences 2^-32 s.)
C5_OffsetAndDelay ==
    (Processed /\ outcome.ok) =>
        LET delay   == SignedAdd(TsDiff(T4, T1), F64Neg(TsDiff(T3, T2)))
            offset2 == SignedAdd(TsDiff(T2, T1), TsDiff(T3, T4))
            exact   == \A d \in {TsDiff(T4, T1), TsDiff(T3, T2), TsDiff(T2, T1),
                                 TsDiff(T3, T4), delay, offset2} :
                            U128Less(d.mag, TwoPow53)
        IN  /\ outcome.val.round_trip_delay_s =
                  F64Sub(SntpTimestamp_sub(T4, T1), SntpTimestamp_sub(T3, T2))
            /\ outcome.val.clock_offset_s =
                  F64Half(F64Add(SntpTimestamp_sub(T2, T1), SntpTimestamp_sub(T3, T4)))
            /\ exact => /\ outcome.val.round_trip_delay_s = Doubled(delay)
                        /\ outcome.val.clock_offset_s = offset2

\* T2 = T3 = T1 - 400 ms and T4 = T1 + 200 ms: the offset is -(2^32 + 1) units
\* of 2^-33 s, that is -500 ms, and the delay 2 * 858993459 units, 200 ms
C5_Witness ==
    /\ Processed
    /\ outcome.ok
    /\ via = "network"
    /\ clock_reads = <<[secs |-> 1793523600, nanos |-> 0],
                       [secs |-> 1793523600, nanos |-> 200000000]>>
    /\ T2 = from_systemtime([secs |-> 1793523599, nanos |-> 600000000])
    /\ T3 = T2
    /\ outcome.val.clock_offset_s = [neg |-> TRUE, mag |-> <<0, 0, 0, 0, 0, 1, 0, 1>>]
    /\ outcome.val.round_trip_delay_s =
          [neg |-> FALSE, mag |-> <<0, 0, 0, 0, 0, 0, 26214, 26214>>]

\* C6: a result carries the reply's stratum, leap indicator and reference
\* identifier unchanged, so its stratum is at least 1.
C6_ResultCarriesReplyFields ==
    (Processed /\ outcome.ok) =>
        /\ outcome.val.stratum = packet.stratum
        /\ outcome.val.leap_indicator = packet.li
        /\ outcome.val.reference_identifier = packet.reference_identifier
        /\ outcome.val.stratum >= 1

\* a result from the network with stratum 255, the alarm indicator and an
\* IPv4 identifier, none of them the request's
C6_Witness ==
    /\ Processed
    /\ outcome.ok
    /\ via = "network"
    /\ outcome.val.stratum = 255
    /\ outcome.val.leap_indicator = "AlarmCondition"
    /\ outcome.val.reference_identifier =
          IpAddress([family |-> "V4", octets |-> <<192, 168, 0, 1>>])

\* C7: an input shorter than 48 bytes fails with PacketIsTooShort whatever it
\* holds, and an input of at least 48 bytes whose version is not 4 fails with
\* InvalidPacketVersion whatever its other fields hold.
C7_LengthThenVersion ==
    DecodeRan =>
        /\ Len(receive_buffer) < ENCODED_LEN =>
              /\ packet = NoValue
              /\ outcome = ProtocolFailure("PacketIsTooShort")
        /\ (Len(receive_buffer) >= ENCODED_LEN /\ (receive_buffer[1] \div 8) % 8 # 4) =>
              /\ packet = NoValue
              /\ outcome = ProtocolFailure("InvalidPacketVersion")

\* a full-length input with a wrong version, an invalid mode and a non-ASCII
\* identifier at stratum 1 is reported for its version
C7_Witness ==
    /\ DecodeRan
    /\ Len(receive_buffer) = ENCODED_LEN
    /\ (receive_buffer[1] \div 8) % 8 = 3
    /\ receive_buffer[1] % 8 = 7
    /\ receive_buffer[2] = 1
    /\ receive_buffer[13] >= 128
    /\ outcome = ProtocolFailure("InvalidPacketVersion")

\* C8: with at least 48 bytes and version 4, mode bits 3, 4, 5 decode to
\* Client, Server, Broadcast and every other value fails with InvalidMode,
\* before the reference identifier is looked at.
C8_ModeDecoding ==
    (/\ DecodeRan
     /\ Len(receive_buffer) >= ENCODED_LEN
     /\ (receive_buffer[1] \div 8) % 8 = 4) =>
        LET raw == receive_buffer[1] % 8
        IN  IF raw \in {3, 4, 5}
            THEN /\ packet # NoValue =>
                       packet.mode = (3 :> "Client" @@ 4 :> "Server" @@ 5 :> "Broadcast")[raw]
                 /\ outcome # ProtocolFailure("InvalidMode") \/ packet # NoValue
            ELSE /\ packet = NoValue
                 /\ outcome = ProtocolFailure("InvalidMode")

\* mode 6 with a non-ASCII identifier at stratum 1 is reported as InvalidMode
C8_Witness ==
    /\ DecodeRan
    /\ Len(receive_buffer) = ENCODED_LEN
    /\ (receive_buffer[1] \div 8) % 8 = 4
    /\ receive_buffer[1] % 8 = 6
    /\ receive_buffer[2] = 1
    /\ receive_buffer[13] >= 128
    /\ outcome = ProtocolFailure("InvalidMode")

\* C9: once length, version and mode are accepted, the identifier's variant
\* follows from the stratum byte and the address family alone: ASCII with
\* trailing NULs trimmed for stratum 0 and 1, the IPv4 address of bytes
\* 12..15 for stratum >= 2 from an IPv4 source, their big-endian u32 for
\* stratum >= 2 from an IPv6 source; decoding fails on the identifier exactly
\* when the stratum is 0 or 1 and one of the four bytes is >= 0x80.
C9_ReferenceIdentifierDispatch ==
    (/\ DecodeRan
     /\ Len(receive_buffer) >= ENCODED_LEN
     /\ (receive_buffer[1] \div 8) % 8 = 4
     /\ receive_buffer[1] % 8 \in {3, 4, 5}) =>
        LET raw     == SubSeq(receive_buffer, 13, 16)
            stratum == receive_buffer[2]
            high    == \E i \in 1..4 : raw[i] >= 128
        IN  /\ (packet = NoValue) <=> (stratum \in {0, 1} /\ high)
            /\ packet = NoValue => outcome = ProtocolFailure("InvalidReferenceIdentifier")
            /\ packet # NoValue =>
                 IF stratum \in {0, 1}
                 THEN \E n \in 0..4 :
                        /\ packet.reference_identifier = ASCII(SubSeq(raw, 1, n))
                        /\ \A i \in (n + 1)..4 : raw[i] = 0
                        /\ n = 0 \/ raw[n] # 0
                 ELSE IF server_address.family = "V4"
                 THEN packet.reference_identifier =
                         IpAddress([family |-> "V4", octets |-> raw])
                 ELSE packet.reference_identifier =
                         MD5Hash(<<raw[1] * 256 + raw[2], raw[3] * 256 + raw[4]>>)

\* "LOCL" from a stratum-2 peer reached over IPv6 is the hash 0x4C4F434C
C9_Witness ==
    /\ DecodeRan
    /\ packet # NoValue
    /\ packet.stratum = 2
    /\ server_address.family = "V6"
    /\ SubSeq(receive_buffer, 13, 16) = Str_LOCL
    /\ packet.reference_identifier = MD5Hash(<<19535, 17228>>)

\* the kiss codes of RFC 5905, section 7.4, as error.rs names them
KissTable ==
    { <<Str_ACST, "AssociationBelongsToAnycastServer">>,
      <<Str_AUTH, "ServerAuthenticationFailed">>,
      <<Str_AUTO, "AutokeySequenceFailed">>,
      <<Str_BCST, "AssociationBelongsToBroadcastServer">>,
      <<Str_CRYP, "CryptographicAuthenticationFailed">>,
      <<Str_DENY, "AccessDenied">>,
      <<Str_DROP, "LostPeer">>,
      <<Str_RSTR, "AccessDenied">>,
      <<Str_INIT, "AssociationNotYetSynchronized">>,
      <<Str_MCST, "AssociationBelongsToManycastServer">>,
      <<Str_NKEY, "NoKeyFound">>,
      <<Str_RATE, "RateExceeded">>,
      <<Str_RMOT, "TinkeringWithAssociation">>,
      <<Str_STEP, "StepChange">> }

\* C10: the code carried by a Kiss-o'-Death is the table's enumerator when
\* the reply's identifier is the ASCII variant holding one of the 14 strings,
\* and Unknown for every other ASCII string and every other variant.
C10_KissCodeLookup ==
    (Processed /\ packet.stratum = 0) =>
        /\ outcome.ok = FALSE
        /\ outcome.err.variant = "ProtocolError"
        /\ outcome.err.protocol_error.kind = "KissODeath"
        /\ LET id   == packet.reference_identifier
               code == outcome.err.protocol_error.code
           IN  IF id.tag = "ASCII" /\ \E e \in KissTable : e[1] = id.s
               THEN <<id.s, code>> \in KissTable
               ELSE code = "Unknown"

\* a stratum-0 reply from the network with identifier "RSTR" is rejected as
\* Kiss-o'-Death with AccessDenied
C10_Witness ==
    /\ Processed
    /\ via = "network"
    /\ packet.stratum = 0
    /\ SubSeq(receive_buffer, 13, 16) = Str_RSTR
    /\ outcome = Err(SyncProtocolError(KissODeath("AccessDenied")))

\* synchronize or process has returned, and not by aborting
Returned == pc = "done" /\ "ok" \in DOMAIN outcome

\* C11: is_kiss_of_death is true exactly for ProtocolError(KissODeath(code)),
\* whatever the code, Unknown included, and false for every IOError and every
\* other ProtocolError; so the error a synchronization returns satisfies it
\* exactly when the reply was rejected by the stratum-0 check.
C11_KissOfDeathPredicate ==
    (Returned /\ ~outcome.ok) =>
        /\ is_kiss_of_death(outcome.err) <=> (Processed /\ packet.stratum = 0)
        /\ outcome.err.variant = "IOError" => ~is_kiss_of_death(outcome.err)
        /\ is_kiss_of_death(outcome.err) <=>
              \E code \in {e[2] : e \in KissTable} \cup {"Unknown"} :
                  outcome.err = SyncProtocolError(KissODeath(code))

\* a stratum-0 reply from the network with an unknown identifier: the error
\* carries KissCode::Unknown and satisfies is_kiss_of_death
C11_Witness ==
    /\ Returned
    /\ via = "network"
    /\ Processed
    /\ packet.stratum = 0
    /\ outcome = Err(SyncProtocolError(KissODeath("Unknown")))
    /\ is_kiss_of_death(outcome.err)

\* C12: no abort is reachable from what the network delivers: for every
\* datagram, of any length, and every source address Packet::from_bytes
\* returns a Packet or a ProtocolError, and Reply::process on a decoded
\* packet, with any request and any arrival time, returns a result or an
\* error.
C12_NoAbortFromNetworkInput ==
    /\ "panic" \notin DOMAIN outcome
    /\ DecodeRan =>
          \/ packet # NoValue
          \/ Returned /\ ~outcome.ok /\ outcome.err.variant = "ProtocolError"
    /\ Processed => Returned

\* a datagram one byte short of a packet, with a valid header, is refused
\* with PacketIsTooShort
C12_Witness ==
    /\ DecodeRan
    /\ Len(receive_buffer) = ENCODED_LEN - 1
    /\ receive_buffer[1] = 36
    /\ Returned
    /\ outcome = ProtocolFailure("PacketIsTooShort")

\* C13: one synchronize call sends at most once and receives at most once
\* and never retries: the receive follows the one send, the first datagram
\* decides the outcome, an error of decoding or validation is returned by the
\* step that found it, and nothing happens after the call has returned.
C13_OneSendOneReceive ==
    [][/\ sends' <= 1
       /\ recvs' <= 1
       /\ recvs' # recvs => (sends = 1 /\ recvs = 0)
       /\ sends' # sends => (sends = 0 /\ recvs = 0)
       /\ outcome' # NoValue => pc' = "done"
       /\ pc # "done"]_vars

\* a stale reply: InvalidOriginateTimestamp after one send and one receive
C13_Witness ==
    /\ Returned
    /\ via = "network"
    /\ outcome = ProtocolFailure("InvalidOriginateTimestamp")
    /\ sends = 1
    /\ recvs = 1

\* the outcome is the I/O error e
IOFailure(e) == outcome = Err(SyncIOError(e))

\* C14: every synchronize call terminates; when no datagram arrived it
\* returns an IOError (TimedOut when the timeout expired), never a result or
\* a ProtocolError; and a failure of bind, set_read_timeout, connect, send or
\* receive is returned as IOError by the step that failed, nothing of the
\* protocol following it.
C14_TerminatesAndReportsIOError ==
    /\ <>(pc = "done")
    /\ []((Returned /\ client # "tests") =>
            /\ server_address = NoValue <=> (~outcome.ok /\ outcome.err.variant = "IOError")
            /\ server_address = NoValue =>
                  /\ packet = NoValue /\ reply = NoValue
                  /\ \/ (IOFailure("bind failed") \/ IOFailure("set_read_timeout failed")
                             \/ IOFailure("connect failed"))
                          /\ request = NoValue /\ sends = 0 /\ recvs = 0
                     \/ IOFailure("send failed") /\ sends = 1 /\ recvs = 0
                     \/ (IOFailure("TimedOut") \/ IOFailure("recv_from failed"))
                          /\ sends = 1 /\ recvs = 1)

\* the timeout expired in the asynchronous client: TimedOut after one send
\* and one receive, no packet decoded
C14_Witness ==
    /\ Returned
    /\ client = "AsyncSntpClient::synchronize"
    /\ IOFailure("TimedOut")
    /\ sends = 1
    /\ recvs = 1
    /\ packet = NoValue

\* C15 as stated: in every exchange that reaches validation the wall clock
\* has been read exactly twice, the first reading being the request's
\* transmit timestamp T1 and the second the arrival timestamp T4.
C15_TwoClockReadsInEveryExchange ==
    (Processed /\ via = "network") =>
        /\ Len(clock_reads) = 2
        /\ reply.request.transmit_timestamp = from_systemtime(clock_reads[1])
        /\ reply.reply_timestamp = from_systemtime(clock_reads[2])

\* C15, amended: in an exchange of SntpClient::synchronize or
\* AsyncSntpClient::synchronize the wall clock is read at exactly two points,
\* once when the request is built, before the send, which gives T1, and once
\* when the reply is paired with the request, after the one receive and
\* before validation and the offset/delay computation, which gives T4; in an
\* exchange of synchronize_with_reference_time T1 is the caller's
\* reference_time and the clock is read once, at the second point.
C15_ClockReadPoints ==
    [][/\ clock_reads' # clock_reads =>
            \/ /\ pc \in {"connected", "start"}
               /\ reference_time' = NoValue
               /\ clock_reads = <<>> /\ Len(clock_reads') = 1
               /\ sends = 0 /\ recvs = 0
               /\ request'.packet.transmit_timestamp = from_systemtime(clock_reads'[1])
            \/ /\ pc = "decoded"
               /\ sends = 1 /\ recvs = 1 /\ outcome = NoValue
               /\ Len(clock_reads') = Len(clock_reads) + 1
               /\ reply'.reply_timestamp =
                     from_systemtime(clock_reads'[Len(clock_reads')])
       /\ (pc = "paired" /\ via = "network") =>
            /\ reply.request.transmit_timestamp = T1
            /\ reply.reply_timestamp = T4
            /\ IF client = "AsyncSntpClient::synchronize_with_reference_time"
               THEN reference_time # NoValue /\ Len(clock_reads) = 1
               ELSE reference_time = NoValue /\ Len(clock_reads) = 2]_vars

\* an exchange of synchronize_with_reference_time that yields a result: the
\* request carries the reference time and the clock was read once
C15_Witness ==
    /\ Processed
    /\ outcome.ok
    /\ client = "AsyncSntpClient::synchronize_with_reference_time"
    /\ reference_time = [secs |-> 1793523600, nanos |-> 0]
    /\ clock_reads = <<[secs |-> 1793523600, nanos |-> 200000000]>>
    /\ reply.request.transmit_timestamp = from_systemtime(reference_time)

\* the instant the request was built for
TransmitTime == IF reference_time # NoValue THEN reference_time ELSE clock_reads[1]

TwoPow63 == <<0, 0, 0, 0, 32768, 0, 0, 0>>

\* the 64-bit field as an unsigned number
Raw(bytes) == U128FromU64(U64FromBeBytes(bytes))

\* C17: for every 8-byte field, top bit set or clear, all-zero included,
\* from_bytes(bytes).to_bytes() is bytes.
C17_TimestampRoundTrip ==
    (operands.kind = "bytes" /\ pc \in {"encoded", "subtracted"}) =>
        /\ results.a_bytes = Ok(operands.a)
        /\ results.b_bytes = Ok(operands.b)

\* the all-zero field decodes to 2^64 and encodes to all-zero again, next to
\* a field with the top bit set
C17_Witness ==
    /\ pc = "encoded"
    /\ operands.kind = "bytes"
    /\ operands.a = ZeroBytes(8)
    /\ results.a = TwoPow64
    /\ results.a_bytes = Ok(ZeroBytes(8))
    /\ operands.b[1] >= 128
    /\ results.b_bytes = Ok(operands.b)

\* C18: a field with the top bit set decodes to its raw value, in
\* [2^63, 2^64); a field with the top bit clear decodes to raw + 2^64, in
\* [2^64, 2^64 + 2^63); so a decoded field B with the top bit clear is later
\* than a decoded field A with the top bit set, B - A is positive, and it is
\* the f64 of (raw B + 2^64 - raw A) / 2^32, the time elapsed across the
\* rollover.
C18_EraDisambiguation ==
    (operands.kind = "bytes" /\ pc = "subtracted") =>
        /\ \A x \in {<<operands.a, results.a>>, <<operands.b, results.b>>} :
              IF x[1][1] >= 128
              THEN /\ x[2] = Raw(x[1])
                   /\ ~U128Less(x[2], TwoPow63) /\ U128Less(x[2], TwoPow64)
              ELSE /\ x[2] = U128Add(Raw(x[1]), TwoPow64)
                   /\ ~U128Less(x[2], TwoPow64)
                   /\ U128Less(x[2], U128Add(TwoPow64, TwoPow63))
        /\ (operands.a[1] >= 128 /\ operands.b[1] < 128) =>
              LET elapsed == U128Sub(U128Add(Raw(operands.b), TwoPow64), Raw(operands.a))
              IN  /\ U128Less(results.a, results.b)
                  /\ results.b_minus_a.ok
                  /\ ~results.b_minus_a.val.neg
                  /\ results.b_minus_a.val.mag # U128Zero
                  /\ results.b_minus_a.val =
                        F64(FALSE, U128Add(Round53(elapsed), Round53(elapsed)))

\* A is the last field before the rollover that a clock produces, B is
\* 4.25 s after it: B - A is 4.25 s and 5 units of 2^-32 s
C18_Witness ==
    /\ pc = "subtracted"
    /\ operands.kind = "bytes"
    /\ operands.a = <<255, 255, 255, 255, 255, 255, 255, 251>>
    /\ operands.b = <<0, 0, 0, 4, 64, 0, 0, 0>>
    /\ results.b_minus_a = Ok([neg |-> FALSE, mag |-> <<0, 0, 0, 0, 0, 8, 32768, 10>>])

\* the f64 of a signed count of 2^-32 s, in units of 2^-33 s
Seconds(d) == F64(d.neg, U128Add(Round53(d.mag), Round53(d.mag)))

\* C19: A - B is the signed difference of the internal values over 2^32,
\* computed without underflow in either order; A - B = -(B - A), A - A = 0,
\* and A - B > 0 exactly when A's internal value is the greater.
C19_SubtractionIsSigned ==
    pc = "subtracted" =>
        /\ results.a_minus_b.ok /\ results.b_minus_a.ok /\ results.a_minus_a.ok
        /\ results.a_minus_b.val = Seconds(TsDiff(results.a, results.b))
        /\ results.b_minus_a.val = Seconds(TsDiff(results.b, results.a))
        /\ results.a_minus_b.val = F64Neg(results.b_minus_a.val)
        /\ results.a_minus_a.val = F64Zero
        /\ (~results.a_minus_b.val.neg /\ results.a_minus_b.val.mag # U128Zero)
              <=> U128Less(results.b, results.a)

\* the last field of the first era minus the first field of the second: one
\* unit of 2^-32 s below zero
C19_Witness ==
    /\ pc = "subtracted"
    /\ operands.kind = "bytes"
    /\ operands.a = <<255, 255, 255, 255, 255, 255, 255, 255>>
    /\ operands.b = ZeroBytes(8)
    /\ results.a_minus_b = Ok([neg |-> TRUE, mag |-> <<0, 0, 0, 0, 0, 0, 0, 2>>])
    /\ results.b_minus_a = Ok([neg |-> FALSE, mag |-> <<0, 0, 0, 0, 0, 0, 0, 2>>])

\* t is ((s + 2208988800) << 32) + floor((n << 32) / 1_000_000_000)
IsTimestampOf(t, instant) ==
    LET whole    == U128Shl32(U128Add(U128FromNat(instant.secs),
                                      <<0, 0, 0, 0, 0, 0, 33706, 32384>>))
        fraction == U128Sub(t, whole)
        scaled   == U128Shl32(U128FromNat(instant.nanos))
    IN  /\ ~U128Less(t, whole)
        /\ ~U128Less(scaled, TimesNanosPerSec(fraction))
        /\ U128Less(scaled, U128Add(TimesNanosPerSec(fraction),
                                    U128FromNat(NANOS_PER_SEC)))

Earlier(x, y) == x.secs < y.secs \/ (x.secs = y.secs /\ x.nanos < y.nanos)

\* C20: from_systemtime of the instant s seconds and n nanoseconds after
\* the Unix epoch is ((s + 2208988800) << 32) + floor((n << 32) / 10^9);
\* instants a whole number d of seconds apart give timestamps d * 2^32
\* apart, whose difference is d seconds; and the conversion is strictly
\* increasing, so distinct instants give distinct timestamps.
C20_FromSystemTime ==
    (operands.kind = "instant" /\ pc = "subtracted") =>
        /\ IsTimestampOf(results.a, operands.a)
        /\ IsTimestampOf(results.b, operands.b)
        /\ (operands.a.nanos = operands.b.nanos /\ operands.a.secs >= operands.b.secs) =>
              LET d == U128Shl32(U128FromNat(operands.a.secs - operands.b.secs))
              IN  /\ results.a = U128Add(results.b, d)
                  /\ results.a_minus_b = Ok(F64(FALSE, U128Add(d, d)))
                  /\ results.b_minus_a = Ok(F64(TRUE, U128Add(d, d)))
        /\ Earlier(operands.a, operands.b) <=> U128Less(results.a, results.b)
        /\ operands.a # operands.b <=> results.a # results.b

\* the instant of the tests of packet.rs and the instant 3600 s after it:
\* the field of the test, and a difference of 3600 s
C20_Witness ==
    /\ pc = "subtracted"
    /\ operands.kind = "instant"
    /\ operands.a = [secs |-> 1096258268, nanos |-> 213800999]
    /\ operands.b = [secs |-> 1096254668, nanos |-> 213800999]
    /\ results.b_bytes = Ok(<<197, 2, 3, 76, 54, 187, 169, 138>>)
    /\ results.a_minus_b = Ok([neg |-> FALSE, mag |-> <<0, 0, 0, 0, 0, 7200, 0, 0>>])

(***************************************************************************)
(* Packet encoding and decoding on their own                               *)
(***************************************************************************)
\* the numbers of the leap indicators and of the modes on the wire
LeapNumber ==
    [NoWarning |-> 0, LastMinuteHas59Seconds |-> 1, LastMinuteHas61Seconds |-> 2,
     AlarmCondition |-> 3]

ModeNumber == [Client |-> 3, Server |-> 4, Broadcast |-> 5]

\* to_bytes has been applied to a Packet
PacketEncoded == pc \in {"packet encoded", "packet decoded"} /\ operands.kind = "packet"

\* every timestamp of the Packet is below 2^65
Encodable(p) ==
    /\ U128Less(p.reference_timestamp, TwoPow65)
    /\ U128Less(p.originate_timestamp, TwoPow65)
    /\ U128Less(p.receive_timestamp, TwoPow65)
    /\ U128Less(p.transmit_timestamp, TwoPow65)

\* the Packet of encoding_a_packet_works and the bytes the test expects
TestPacket ==
    [li                   |-> "NoWarning",
     mode                 |-> "Client",
     stratum              |-> 0,
     reference_identifier |-> Empty,
     reference_timestamp  |-> SntpTimestamp_from_bytes(<<197, 2, 2, 172, 65, 110, 21, 135>>),
     originate_timestamp  |-> SntpTimestamp_from_bytes(<<197, 2, 4, 236, 238, 211, 60, 82>>),
     receive_timestamp    |-> SntpTimestamp_from_bytes(<<197, 2, 4, 235, 217, 216, 215, 157>>),
     transmit_timestamp   |-> SntpTimestamp_from_bytes(<<197, 2, 4, 235, 217, 220, 181, 120>>)]

TestPacketBytes == <<35, 0>> \o ZeroBytes(14) \o SubSeq(TestBody, 5, 36)

\* C21: a Packet with an Empty reference identifier and timestamps below
\* 2^65 encodes to 48 bytes: byte 0 is (leap << 6) | 0x20 | mode, byte 1 the
\* stratum, bytes 2..15 zero, bytes 16..47 the four encoded timestamps in the
\* order reference, originate, receive, transmit; the version bits read 4,
\* and decoding the bytes gives back the mode and the leap indicator.
C21_EncodedLayout ==
    (PacketEncoded /\ is_empty(operands.packet.reference_identifier)
        /\ Encodable(operands.packet))
    => LET p == operands.packet
           b == results.bytes.val
       IN  /\ results.bytes.ok
           /\ Len(b) = 48
           /\ b[1] = LeapNumber[p.li] * 64 + 32 + ModeNumber[p.mode]
           /\ b[2] = p.stratum
           /\ \A i \in 3..16 : b[i] = 0
           /\ SubSeq(b, 17, 24) = SntpTimestamp_to_bytes(p.reference_timestamp).val
           /\ SubSeq(b, 25, 32) = SntpTimestamp_to_bytes(p.originate_timestamp).val
           /\ SubSeq(b, 33, 40) = SntpTimestamp_to_bytes(p.receive_timestamp).val
           /\ SubSeq(b, 41, 48) = SntpTimestamp_to_bytes(p.transmit_timestamp).val
           /\ (b[1] \div 8) % 8 = 4
           /\ b[1] % 8 = ModeNumber[p.mode]
           /\ b[1] \div 64 = LeapNumber[p.li]
           /\ p = TestPacket => b = TestPacketBytes
           /\ pc = "packet decoded"
                => /\ results.decoded.ok
                   /\ results.decoded.val.li = p.li
                   /\ results.decoded.val.mode = p.mode
                   /\ results.decoded.val.stratum = p.stratum

\* a Server packet of stratum 2 announcing a leap second, with a timestamp of
\* the era of 2036, has been encoded and decoded again
C21_Witness ==
    /\ pc = "packet decoded"
    /\ operands.kind = "packet"
    /\ operands.packet.li = "LastMinuteHas61Seconds"
    /\ operands.packet.mode = "Server"
    /\ operands.packet.stratum = 2
    /\ ~U128Less(operands.packet.receive_timestamp, TwoPow64)
    /\ results.bytes.val[1] = 164
    /\ results.decoded.ok

\* Packet::from_bytes has been applied to a pair of datagrams
PairDecoded == pc = "packet decoded" /\ operands.kind = "datagrams"

\* C28: LeapIndicator::from_u8 maps 0, 1, 2, 3 to NoWarning,
\* LastMinuteHas59Seconds, LastMinuteHas61Seconds, AlarmCondition, to_u8 maps
\* them back, from_u8(to_u8(li)) = li, and Packet::from_bytes, which passes
\* the two top bits of byte 0, never returns InvalidLeapIndicator: a decoded
\* Packet carries the leap indicator of those two bits.
C28_LeapIndicatorTotal ==
    /\ (pc \in {"leap decoded", "leap encoded"} /\ operands.raw <= 3)
        => /\ results.li.ok
           /\ LeapNumber[results.li.val] = operands.raw
    /\ (pc \in {"leap decoded", "leap encoded"} /\ operands.raw > 3)
        => results.li = Err(ProtocolError("InvalidLeapIndicator"))
    /\ pc = "leap encoded"
        => /\ results.raw = operands.raw
           /\ LeapIndicator_from_u8(results.raw) = results.li
    /\ PairDecoded
        => \A side \in {"a", "b"} :
             /\ results[side] # Err(ProtocolError("InvalidLeapIndicator"))
             /\ results[side].ok
                  => LeapNumber[results[side].val.li] = operands.pair[side][1] \div 64

\* the byte 2 has been decoded to LastMinuteHas61Seconds and encoded again
C28_Witness ==
    /\ pc = "leap encoded"
    /\ operands.raw = 2
    /\ results.li = Ok("LastMinuteHas61Seconds")
    /\ results.raw = 2

\* the two datagrams have at least 48 bytes and the same bytes 0, 1 and 12..47
SameHeading(a, b) ==
    /\ Len(a) >= 48
    /\ Len(b) >= 48
    /\ \A i \in {1, 2} \cup 13..48 : a[i] = b[i]

\* C27: two datagrams of at least 48 bytes that agree on bytes 0, 1 and
\* 12..47, decoded with addresses of the same family, give the same Packet
\* or the same error, whatever their bytes 2..11 and the bytes after the 48th.
C27_UnmodelledFieldsIgnored ==
    (PairDecoded /\ SameHeading(operands.pair.a, operands.pair.b))
        => results.a = results.b

\* a datagram and one with the same heading, other bytes 2..11 and four more
\* bytes have been decoded to a Packet of stratum 2 from an IPv6 address
C27_Witness ==
    /\ PairDecoded
    /\ SameHeading(operands.pair.a, operands.pair.b)
    /\ SubSeq(operands.pair.a, 3, 12) # SubSeq(operands.pair.b, 3, 12)
    /\ Len(operands.pair.b) = 52
    /\ operands.server_address.family = "V6"
    /\ results.a.ok
    /\ results.a.val.stratum = 2

(***************************************************************************)
(* Timestamps of every constructor, encoded and echoed                     *)
(***************************************************************************)
\* to_bytes has been applied to a constructed timestamp
EchoEncoded == pc \in {"echo encoded", "echo processed"}

\* C26: for a timestamp from zero(), from from_bytes on any 8 bytes, or from
\* from_systemtime on an instant at or after the Unix epoch, to_bytes returns
\* 8 bytes and does not abort.
C26_ToBytesNeverAborts ==
    EchoEncoded => results.bytes.ok /\ Len(results.bytes.val) = 8

\* C25: a reply whose originate field carries the 8 transmit bytes of a
\* request that was encoded without an abort decodes to the request's
\* transmit timestamp, and is not rejected with InvalidOriginateTimestamp.
C25_HonestEchoAccepted ==
    pc = "echo processed"
        => /\ results.decoded.ok
           /\ results.decoded.val.originate_timestamp = results.timestamp
           /\ results.outcome # Err(SyncProtocolError(ProtocolError("InvalidOriginateTimestamp")))

\* the message of the assertion in Packet::to_bytes
EmptyAssertion == "Reference identifier should be empty for client packets"

\* C29: Packet::to_bytes aborts on its assertion for every Packet whose
\* reference identifier is not Empty, whatever its other fields; in a call of
\* a synchronize function the Request's identifier is Empty, the bytes sent
\* are the encoding of the Request's packet, and no call ends in that abort.
C29_NonEmptyIdentifierAborts ==
    /\ (PacketEncoded /\ ~is_empty(operands.packet.reference_identifier))
        => results.bytes = Err(EmptyAssertion)
    /\ (PacketEncoded /\ ~results.bytes.ok /\ results.bytes.err = EmptyAssertion)
        => operands.packet.reference_identifier # Empty
    /\ request # NoValue => request.packet.reference_identifier = Empty
    /\ sent # <<>> => Packet_to_bytes(request.packet) = Ok(sent)
    /\ outcome # [panic |-> EmptyAssertion]

\* to_bytes has aborted on a Packet with the identifier "abcd" whose
\* timestamps all encode
C29_Witness ==
    /\ PacketEncoded
    /\ operands.packet.reference_identifier = ASCII(<<97, 98, 99, 100>>)
    /\ Encodable(operands.packet)
    /\ results.bytes = Err(EmptyAssertion)

(***************************************************************************)
(* Decoded packets in a call of synchronize                                *)
(***************************************************************************)
\* C30: a Packet decoded from a datagram never has the Empty reference
\* identifier: it is ASCII for stratum 0 and 1, IpAddress for a higher
\* stratum from an IPv4 source and MD5Hash from an IPv6 source; so the
\* identifier of a result, and the identifier a Kiss-o'-Death code is made
\* from, are not Empty when the reply came from the network.
C30_EmptyOnlyInRequests ==
    via = "network" =>
        /\ packet # NoValue =>
             /\ ~is_empty(packet.reference_identifier)
             /\ packet.reference_identifier.tag =
                  IF packet.stratum \in {0, 1} THEN "ASCII"
                  ELSE IF server_address.family = "V4" THEN "IpAddress"
                  ELSE "MD5Hash"
        /\ reply # NoValue => reply.reply.reference_identifier # Empty
        /\ (Returned /\ outcome.ok) => outcome.val.reference_identifier # Empty
        /\ (Returned /\ ~outcome.ok /\ is_kiss_of_death(outcome.err))
             => /\ reply.reply.reference_identifier # Empty
                /\ outcome = Err(SyncProtocolError(KissODeath(
                                 KissCode_new(reply.reply.reference_identifier))))

\* a Kiss-o'-Death whose identifier field is four NULs came from the network:
\* the identifier is the ASCII variant with an empty string
C30_Witness ==
    /\ Returned
    /\ via = "network"
    /\ packet # NoValue
    /\ packet.stratum = 0
    /\ packet.reference_identifier = ASCII(<<>>)
    /\ ~outcome.ok
    /\ is_kiss_of_death(outcome.err)

\* the first test of Packet::from_bytes a datagram fails, or "none"
FirstDecodeError(data) ==
    IF Len(data) < 48 THEN "PacketIsTooShort"
    ELSE IF (data[1] \div 8) % 8 # 4 THEN "InvalidPacketVersion"
    ELSE IF data[1] % 8 \notin {3, 4, 5} THEN "InvalidMode"
    ELSE IF data[2] \in {0, 1} /\ \E i \in 13..16 : data[i] >= 128
    THEN "InvalidReferenceIdentifier"
    ELSE "none"

\* C24: a received datagram is decoded before the reply is processed, so a
\* datagram with a zero stratum byte that is shorter than 48 bytes, has a
\* version other than 4, an invalid mode, or an identifier byte >= 0x80 is
\* reported as PacketIsTooShort, InvalidPacketVersion, InvalidMode or
\* InvalidReferenceIdentifier, the first that applies, and is_kiss_of_death
\* is false for that error; KissODeath is returned exactly for the datagrams
\* that decode and have stratum 0.
C24_DecodeErrorsBeforeKiss ==
    (DecodeRan /\ via = "network") =>
        /\ (/\ Len(receive_buffer) >= 2
            /\ receive_buffer[2] = 0
            /\ FirstDecodeError(receive_buffer) # "none")
            => /\ packet = NoValue
               /\ reply = NoValue
               /\ outcome = ProtocolFailure(FirstDecodeError(receive_buffer))
               /\ ~is_kiss_of_death(outcome.err)
        /\ (Returned /\ ~outcome.ok /\ is_kiss_of_death(outcome.err))
            <=> /\ pc = "done"
                /\ FirstDecodeError(receive_buffer) = "none"
                /\ receive_buffer[2] = 0

\* a 48-byte stratum-0 datagram of version 4 in mode 6 with the identifier
\* "RATE" is reported for its mode, not as a Kiss-o'-Death
C24_Witness ==
    /\ DecodeRan
    /\ via = "network"
    /\ Len(receive_buffer) = 48
    /\ receive_buffer[1] = 38
    /\ receive_buffer[2] = 0
    /\ SubSeq(receive_buffer, 13, 16) = Str_RATE
    /\ outcome = ProtocolFailure("InvalidMode")

(***************************************************************************)
(* Conversions of a SntpDateTime                                           *)
(***************************************************************************)
\* the magnitude of the stored offset as a Duration
Magnitude == abs_as_std_duration(results.datetime.offset)

\* d nanoseconds are within half a nanosecond of mag units of 2^-33 s
IsNanosOf(d, mag) ==
    LET lhs == U128Add(U128Shl32(d), U128Shl32(d))
        rhs == TimesNanosPerSec(mag)
        gap == IF U128Less(lhs, rhs) THEN U128Sub(rhs, lhs) ELSE U128Sub(lhs, rhs)
    IN  ~U128Less(<<0, 0, 0, 0, 0, 1, 0, 0>>, gap)

\* the reading of the clock at the call plus the offset, or minus its
\* magnitude when the offset is negative
CorrectedTime(c) ==
    SignedAdd(SystemTimeOf(c.now), F64(results.datetime.offset.neg, Magnitude.val))

\* a SystemTime holds the seconds of an i64
OutOfRange(t) ==
    IF t.neg THEN U128Less(SystemTimeLimit, t.mag) ELSE ~U128Less(t.mag, SystemTimeLimit)

\* what a conversion returned, as a SystemTime
AsSystemTime(c) ==
    IF c.call = "unix_timestamp" THEN [neg |-> FALSE, mag |-> c.value.val] ELSE c.value.val

Between(x, y) == SignedAdd(y, F64(~x.neg, x.mag))

\* the conversions made so far are conversions on demand, those named in
\* bounded failing for a corrected time before the Unix epoch
ConversionsOnDemand(bounded) ==
    pc = "datetime" =>
        /\ DOMAIN results.datetime = {"offset"}
        /\ results.datetime.offset = operands.result.clock_offset_s
        /\ Len(clock_reads) = Len(results.conversions)
        /\ \A i \in 1..Len(results.conversions) :
             LET c == results.conversions[i]
             IN  /\ c.now = clock_reads[i]
                 /\ IF \/ ~Magnitude.ok
                       \/ OutOfRange(CorrectedTime(c))
                       \/ c.call \in bounded /\ CorrectedTime(c).neg
                    THEN c.value = Err("Overflow")
                    ELSE /\ c.value.ok
                         /\ AsSystemTime(c) = CorrectedTime(c)
                         /\ IsNanosOf(Magnitude.val, results.datetime.offset.mag)
        /\ \A i, j \in 1..Len(results.conversions) :
             LET ci == results.conversions[i]
                 cj == results.conversions[j]
             IN  (ci.value.ok /\ cj.value.ok)
                    => Between(AsSystemTime(ci), AsSystemTime(cj))
                         = Between(SystemTimeOf(ci.now), SystemTimeOf(cj.now))

\* C22 as stated: the result and its SntpDateTime hold the offset only; each
\* conversion returns the clock reading of its call plus the offset, so two
\* conversions d apart differ by d and the result is unchanged; unix_timestamp
\* and into_system_time both return Overflow for a corrected time that is
\* before the Unix epoch or out of range.
C22_CorrectedTimeOnDemand == ConversionsOnDemand({"unix_timestamp", "into_system_time"})

\* C22, amended: as above, but only unix_timestamp returns Overflow for a
\* corrected time before the Unix epoch; into_system_time returns that time,
\* and Overflow only when the offset or the sum is out of range.
C22_ConversionsAddTheOffset == ConversionsOnDemand({"unix_timestamp"})

\* of a result whose offset leads to 1969, unix_timestamp returned Overflow
\* and into_system_time, 200 ms later, an instant before the Unix epoch
C22_Witness ==
    /\ pc = "datetime"
    /\ Len(results.conversions) = 2
    /\ results.datetime.offset.neg
    /\ results.conversions[1].call = "unix_timestamp"
    /\ results.conversions[1].value = Err("Overflow")
    /\ results.conversions[2].call = "into_system_time"
    /\ results.conversions[2].now # results.conversions[1].now
    /\ results.conversions[2].value.ok
    /\ results.conversions[2].value.val.neg

(***************************************************************************)
(* Two calls at once                                                       *)
(***************************************************************************)
\* what one call returns when it runs alone with this request instant, this
\* datagram from this address, and this arrival instant
Alone(request_instant, data, from, arrival_instant) ==
    LET decoded == Packet_from_bytes(data, from)
        paired  == new_with_reply_time(new_with_transmit_time(request_instant),
                                       decoded.val, arrival_instant)
    IN  IF ~decoded.ok THEN Err(SyncProtocolError(decoded.err))
        ELSE IF process_overflows(paired)
        THEN [panic |-> "attempt to subtract with overflow"]
        ELSE process(paired)

\* the call has returned after receiving a datagram
Answered(a) == pc[a] = "done" /\ server_address[a] # NoValue

\* C23: of two calls running at once, under every interleaving, each has its
\* own request, reply and arrival timestamp, made from its own clock
\* readings and its own datagram, and returns what it would return alone on
\* them; a call that receives a datagram echoing the other call's transmit
\* timestamp does not accept it when the two transmit timestamps differ.
C23_AttemptsIndependent ==
    \A a \in Attempts :
        /\ request[a] # NoValue => request[a] = new_with_transmit_time(clock_reads[a][1])
        /\ reply[a] # NoValue =>
             /\ reply[a].request = request[a].packet
             /\ reply[a].reply = packet[a]
             /\ reply[a].reply = Packet_from_bytes(receive_buffer[a], server_address[a]).val
             /\ reply[a].reply_timestamp = from_systemtime(clock_reads[a][2])
        /\ Answered(a) =>
             outcome[a] = Alone(clock_reads[a][1], receive_buffer[a], server_address[a],
                                clock_reads[a][Len(clock_reads[a])])
        /\ \A b \in Attempts \ {a} :
             (/\ Answered(b)
              /\ request[a] # NoValue
              /\ request[a].packet.transmit_timestamp # request[b].packet.transmit_timestamp
              /\ Len(receive_buffer[b]) = ENCODED_LEN
              /\ SubSeq(receive_buffer[b], 25, 32) = Echo(sent[a]))
             => /\ "ok" \in DOMAIN outcome[b]
                /\ ~outcome[b].ok

\* B, whose request was stamped 200 ms after A's, received the reply that
\* echoes A's request and rejected it, while A accepted the same reply
C23_Witness ==
    /\ Answered("A")
    /\ Answered("B")
    /\ request["A"].packet.transmit_timestamp # request["B"].packet.transmit_timestamp
    /\ receive_buffer["A"] = receive_buffer["B"]
    /\ Len(receive_buffer["B"]) = ENCODED_LEN
    /\ SubSeq(receive_buffer["B"], 25, 32) = Echo(sent["A"])
    /\ "ok" \in DOMAIN outcome["A"]
    /\ outcome["A"].ok
    /\ outcome["B"] = ProtocolFailure("InvalidOriginateTimestamp")

====
